---- MODULE Spec2Model ----
(***************************************************************************)
(* Model of the NFC IPS viewer's codec pipeline (src/script.js):          *)
(* fragment encode/decode with schema fallback, Bundle <-> CodeRef        *)
(* conversion and the CodeRef view-model builder.                         *)
(*                                                                         *)
(* JavaScript values are modelled as follows.  Objects are records over a *)
(* fixed key set.  A missing string property is Absent; a missing object  *)
(* or number property is the empty sequence <<>> and a present one is the *)
(* one-element sequence <<v>>.  A timestamp is a positive number of       *)
(* minutes and a missing (falsy) timestamp is 0.  Arrays are sequences; a *)
(* missing array and an empty array are both <<>>.  A caught exception is *)
(* a record whose ok field is FALSE.                                      *)
(***************************************************************************)
EXTENDS Integers, Sequences, FiniteSets, TLC

VARIABLES
    pc,                      \* position of the running call
    input,                   \* what the caller handed to the operation
    fragmentText,            \* decodeFragment: fragment
    rawBytes,                \* decodeFragment: bytes
    candidates,              \* decodeFragment: buffers (decompression candidates)
    rawInflateTried,         \* whether pako.inflateRaw was called
    payloadTypePromise,      \* codecPipeline cache of the current schema
    legacyPayloadTypePromise,\* codecPipeline cache of the legacy schema
    attempts,                \* order of the decodeWith calls made
    outcome,                 \* what the codec call returned or threw
    srcBundle,               \* converter: the FHIR bundle given to Bundle->CodeRef
    codeRefPayload,          \* converter / view model: the CodeRef payload
    outBundle,               \* converter: result of CodeRef->Bundle
    viewModel,               \* payloadService: result of buildFromCodeRef
    stageRows,               \* stage sections: chronologicalRows and allPills of one stage
    callPc,                  \* position of each concurrent codec call
    schemaLoads,             \* how many times each schema file was loaded
    legacyCode,            \* legacy view model: the codebook and the code resolved from it
    formatState,             \* two-pane converter: formatState
    leftInput,               \* two-pane converter: leftInput.textContent
    lastFragment             \* the fragment of the latest successful Encode or Decode

vars == <<pc, input, fragmentText, rawBytes, candidates, rawInflateTried,
          payloadTypePromise, legacyPayloadTypePromise, attempts, outcome, srcBundle,
          codeRefPayload, outBundle, viewModel, stageRows, callPc, schemaLoads,
          legacyCode, formatState, leftInput, lastFragment>>

paneVars == <<formatState, leftInput, lastFragment>>

Absent == "absent"

(***************************************************************************)
(* Bounds                                                                  *)
(***************************************************************************)
\* largest number of clinical resources in a generated bundle
MaxResources == 2
\* largest number of vitals in a generated CodeRef stage
MaxItems == 2

(***************************************************************************)
(* Shared data                                                             *)
(***************************************************************************)
stageKeys ==
    <<"poi", "casevac", "axp", "medevac", "r1", "fwdTacevac", "r2", "rearTacevac", "r3">>

StageKeySet == {stageKeys[i] : i \in 1..Len(stageKeys)}

CodeRefOf(s, c) == [sys |-> s, code |-> c]

DEFAULT_BLOOD_GROUP == CodeRefOf("sct", "278152006")

EmptyStage == [vitals |-> <<>>, conditions |-> <<>>, events |-> <<>>]

EmptyStages == [k \in StageKeySet |-> EmptyStage]

Has(m) == m # <<>>

Get(m) == m[1]

(***************************************************************************)
(* Time.  Timestamps are minutes; the clock reads Now during a call.       *)
(***************************************************************************)
\* largest timestamp carried by a generated item
MaxTime == 3

Now == MaxTime + 1

MsPerMinute == 60000

(***************************************************************************)
(* FHIR side: resources, entries, bundles                                  *)
(***************************************************************************)
NoDose == [type |-> "undefined", num |-> 0, text |-> ""]

NumDose(n) == [type |-> "number", num |-> n, text |-> ""]

TextDose(t) == [type |-> "string", num |-> 0, text |-> t]

\* payload.t as a number
NumberT(n) == [type |-> "number", at |-> n]

\* payload.t as a string; at is the instant the string parses to, in minutes, and 0
\* when new Date(string) is an invalid date
StringT(at) == [type |-> "string", at |-> at]

\* a FHIR resource reduced to the properties the converter reads
Resource(rt, stage, cat, system, code, time, value, dose) ==
    [resourceType |-> rt, given |-> Absent, gender |-> Absent, bloodGroupExt |-> Absent,
     nhs |-> Absent, careStage |-> stage, category |-> cat, system |-> system,
     code |-> code, time |-> time, value |-> value, dose |-> dose]

PatientResource(given, gender, bg, nhs) ==
    [Resource("Patient", Absent, Absent, Absent, Absent, 0, 0, NoDose)
        EXCEPT !.given = given, !.gender = gender, !.bloodGroupExt = bg, !.nhs = nhs]

\* `urn:uuid:${stageKey}-${kind}-${index}`; stage is "" for urls outside the stages
Url(stage, kind, index) == [stage |-> stage, kind |-> kind, index |-> index]

Entry(url, res) == [fullUrl |-> url, resource |-> res]

\* what the converter is handed: a Bundle, or a bare Patient resource
Bundle(id, entry) == [resourceType |-> "Bundle", id |-> id, entry |-> entry, patient |-> <<>>]

BarePatient(res) == [resourceType |-> "Patient", id |-> "", entry |-> <<>>, patient |-> <<res>>]

EmptyBundle == Bundle("", <<>>)

SNOMED == "http://snomed.info/sct"

LOINC == "http://loinc.org"

(***************************************************************************)
(* CodeRef side: payloads                                                  *)
(***************************************************************************)
PatientData(given, gender, bg, nhs, svc) ==
    [given |-> given, gender |-> gender, blood_group |-> bg, nhs_id |-> nhs,
     service_id |-> svc, bloodGroup |-> <<>>, nhsId |-> <<>>, serviceId |-> <<>>]

Payload(patient, allergies, meta, stages, t) ==
    [patient |-> patient, allergies |-> allergies, bundleMetadata |-> meta,
     stages |-> stages, t |-> t, originalBundleJson |-> <<>>, D |-> <<>>, P |-> <<>>]

EmptyPayload == Payload(<<>>, <<>>, <<>>, EmptyStages, <<>>)

JsonStringify(value) == [json |-> value]

JsonParse(text) == text.json

(***************************************************************************)
(* Bundle -> CodeRef                                                       *)
(***************************************************************************)
LowerStageKeys ==
    {"poi", "casevac", "axp", "mevac", "medevac", "r1", "fwdtacevac", "fwd-tacevac",
     "forwardtacevac", "forward-tacevac", "fwd tacevac", "r2", "reartacevac",
     "rear-tacevac", "rear tacevac", "r3"}

CARE_STAGE_VALUE_MAP ==
    [k \in LowerStageKeys |->
        CASE k \in {"mevac", "medevac"} -> "medevac"
          [] k \in {"fwdtacevac", "fwd-tacevac", "forwardtacevac", "forward-tacevac",
                    "fwd tacevac"} -> "fwdTacevac"
          [] k \in {"reartacevac", "rear-tacevac", "rear tacevac"} -> "rearTacevac"
          [] OTHER -> k]

\* String.prototype.trim on the extension values the model generates
StringTrim(s) == CASE s = " r1 " -> "r1" [] OTHER -> s

\* toLowerCase().replace(/\s+/g, '') on the extension values the model generates
StringLowerNoSpace(s) ==
    CASE s = "Fwd Tacevac" -> "fwdtacevac"
      [] s = "MEDEVAC" -> "medevac"
      [] s = "Role 4" -> "role4"
      [] OTHER -> s

normaliseCareStageValue(rawValue) ==
    IF rawValue = Absent \/ rawValue = "" THEN Absent
    ELSE LET trimmed == StringTrim(rawValue)
             lowered == StringLowerNoSpace(trimmed)
         IN IF trimmed \in DOMAIN CARE_STAGE_VALUE_MAP THEN CARE_STAGE_VALUE_MAP[trimmed]
            ELSE IF lowered \in DOMAIN CARE_STAGE_VALUE_MAP THEN CARE_STAGE_VALUE_MAP[lowered]
            ELSE trimmed

\* resource.careStage is Absent when the resource has no care-stage extension
getCareStageFromExtension(resource) ==
    IF resource.careStage = Absent THEN Absent
    ELSE normaliseCareStageValue(resource.careStage)

extractSystem(systemUrl) ==
    CASE systemUrl = SNOMED -> "sct"
      [] systemUrl = LOINC -> "loinc"
      [] OTHER -> "unknown"

CodingOf(resource) ==
    <<CodeRefOf(extractSystem(resource.system),
                IF resource.code = Absent THEN "unknown" ELSE resource.code)>>

TimeOr(time, now) == IF time = 0 THEN now ELSE time

convertConditionToCodeRef(condition, now) ==
    [code |-> CodingOf(condition), onset |-> TimeOr(condition.time, now)]

convertObservationToCodeRef(observation, now) ==
    [code |-> CodingOf(observation), time |-> TimeOr(observation.time, now),
     value |-> observation.value]

\* dose: medication.dosage?.dose?.value || 0
convertMedicationToCodeRef(medication, now) ==
    [code |-> CodingOf(medication), time |-> TimeOr(medication.time, now),
     dose |-> IF medication.dose.type = "number" THEN NumDose(medication.dose.num)
              ELSE NumDose(0)]

\* dose: procedure.note?.[0]?.text || ''
convertProcedureToCodeRef(procedure, now) ==
    [code |-> CodingOf(procedure), time |-> TimeOr(procedure.time, now),
     dose |-> IF procedure.dose.type = "string" THEN TextDose(procedure.dose.text)
              ELSE TextDose("")]

convertAllergyToCodeRef(allergy, now) ==
    [code |-> CodingOf(allergy), recorded |-> TimeOr(allergy.time, now)]

IsVitalSigns(resource) ==
    resource.resourceType = "Observation" /\ resource.category = "vital-signs"

\* the item list of a stage that a resource kind is pushed to, or Absent
BucketListOf(resource) ==
    CASE resource.resourceType = "Condition" -> "conditions"
      [] IsVitalSigns(resource) -> "vitals"
      [] resource.resourceType \in {"MedicationAdministration", "Procedure"} -> "events"
      [] OTHER -> Absent

ItemOf(resource, now) ==
    CASE resource.resourceType = "Condition" -> convertConditionToCodeRef(resource, now)
      [] resource.resourceType = "Observation" -> convertObservationToCodeRef(resource, now)
      [] resource.resourceType = "MedicationAdministration" ->
            convertMedicationToCodeRef(resource, now)
      [] OTHER -> convertProcedureToCodeRef(resource, now)

PushItem(stage, list, item) ==
    CASE list = "conditions" -> [stage EXCEPT !.conditions = Append(@, item)]
      [] list = "vitals" -> [stage EXCEPT !.vitals = Append(@, item)]
      [] OTHER -> [stage EXCEPT !.events = Append(@, item)]

\* payload[careStage].<list>.push(...): a TypeError when payload[careStage] is no stage
StageExists(careStage) == careStage \in StageKeySet

\* bundle.entry.forEach(...) of convertFhirBundleToCodeRef; ok = FALSE is a TypeError
RECURSIVE PartitionEntries(_, _, _)
PartitionEntries(entries, payload, now) ==
    IF entries = <<>> THEN [ok |-> TRUE, payload |-> payload]
    ELSE LET entry == Head(entries)
             rest == Tail(entries)
         IN IF ~Has(entry.resource) THEN PartitionEntries(rest, payload, now)
            ELSE LET resource == Get(entry.resource)
                     careStage == getCareStageFromExtension(resource)
                     list == BucketListOf(resource)
                 IN IF resource.resourceType = "AllergyIntolerance"
                    THEN PartitionEntries(rest,
                            [payload EXCEPT !.allergies =
                                Append(@, convertAllergyToCodeRef(resource, now))], now)
                    ELSE IF careStage = Absent \/ list = Absent
                    THEN PartitionEntries(rest, payload, now)
                    ELSE IF ~StageExists(careStage)
                    THEN [ok |-> FALSE, payload |-> payload]
                    ELSE PartitionEntries(rest,
                            [payload EXCEPT !.stages[careStage] =
                                PushItem(@, list, ItemOf(resource, now))], now)

\* a lookup that takes any entry with a resource for the patient
FindPatientAny(entries) == SelectSeq(entries, LAMBDA e : Has(e.resource))

FindPatient(entries) ==
    SelectSeq(entries, LAMBDA e : Has(e.resource) /\ Get(e.resource).resourceType = "Patient")

GenderToCodeRef(gender) ==
    CASE gender = "male" -> <<CodeRefOf("sct", "248153007")>>
      [] gender = "female" -> <<CodeRefOf("sct", "248152002")>>
      [] OTHER -> <<>>

BloodGroupFromExtension(patient) ==
    IF patient.bloodGroupExt = Absent THEN <<>>
    ELSE <<CodeRefOf("sct", patient.bloodGroupExt)>>

ConvertPatient(patient) ==
    PatientData(IF patient.given = Absent THEN "" ELSE patient.given,
                GenderToCodeRef(patient.gender),
                BloodGroupFromExtension(patient),
                IF patient.nhs = Absent THEN <<>> ELSE <<CodeRefOf("nhs", patient.nhs)>>,
                <<>>)

BundleMetadataOf(bundle) ==
    [id |-> bundle.id, entries_json |-> <<JsonStringify(bundle.entry)>>]

Thrown(message) == [ok |-> FALSE, error |-> message, payload |-> EmptyPayload]

convertFhirBundleToCodeRef(bundle, now) ==
    LET patientEntry == FindPatient(bundle.entry)
    IN IF patientEntry = <<>> THEN Thrown("No Patient resource found in FHIR Bundle")
       ELSE LET patient == Get(Head(patientEntry).resource)
                payload == Payload(<<ConvertPatient(patient)>>, <<>>,
                                   <<BundleMetadataOf(bundle)>>, EmptyStages,
                                   <<NumberT(now * MsPerMinute)>>)
                filled == PartitionEntries(bundle.entry, payload, now)
            IN IF filled.ok THEN [ok |-> TRUE, error |-> "", payload |-> filled.payload]
               ELSE Thrown("TypeError")

\* genderMap[patient.gender] || patient.gender: an unmapped string stays a bare string
GenderOrString(gender) ==
    IF Has(GenderToCodeRef(gender)) THEN GenderToCodeRef(gender)
    ELSE IF gender = Absent THEN <<>>
    ELSE <<CodeRefOf("", gender)>>

\* convertFhirToCodeRef on a Bundle or on a bare Patient resource
convertFhirToCodeRef(fhirPayload, now) ==
    IF fhirPayload.resourceType = "Bundle" THEN convertFhirBundleToCodeRef(fhirPayload, now)
    ELSE LET patient == Get(fhirPayload.patient)
             bloodGroup == BloodGroupFromExtension(patient)
         IN [ok |-> TRUE, error |-> "",
             payload |-> Payload(
                <<PatientData(IF patient.given = Absent THEN "" ELSE patient.given,
                              GenderOrString(patient.gender),
                              IF Has(bloodGroup) THEN bloodGroup ELSE <<DEFAULT_BLOOD_GROUP>>,
                              IF patient.nhs = Absent THEN <<>>
                              ELSE <<CodeRefOf("nhs", patient.nhs)>>,
                              <<>>)>>,
                <<>>, <<>>, EmptyStages, <<>>)]

(***************************************************************************)
(* CodeRef -> Bundle                                                       *)
(***************************************************************************)
UrnCode(sys) ==
    CASE sys = "" -> "urn:code:"
      [] sys = "sct" -> "urn:code:sct"
      [] sys = "loinc" -> "urn:code:loinc"
      [] sys = "nhs" -> "urn:code:nhs"
      [] OTHER -> "urn:code:unknown"

\* reading item.code.sys throws a TypeError when item.code is undefined
HasCode(item) == Has(item.code)

convertCodeRefVitalToFhir(vital, careStage) ==
    LET code == Get(vital.code)
    IN Resource("Observation", careStage, "vital-signs",
                IF code.sys = "loinc" THEN LOINC ELSE UrnCode(code.sys),
                code.code, vital.time, vital.value, NoDose)

\* a condition re-emitted without its care stage
convertCodeRefConditionToFhirUnstaged(condition, careStage) ==
    LET code == Get(condition.code)
    IN Resource("Condition", Absent, Absent,
                IF code.sys = "sct" THEN SNOMED ELSE UrnCode(code.sys),
                code.code, condition.onset, 0, NoDose)

convertCodeRefConditionToFhir(condition, careStage) ==
    LET code == Get(condition.code)
    IN Resource("Condition", careStage, Absent,
                IF code.sys = "sct" THEN SNOMED ELSE UrnCode(code.sys),
                code.code, condition.onset, 0, NoDose)

\* isMedication = event.dose && typeof event.dose === 'number'
IsMedication(event) == event.dose.type = "number" /\ event.dose.num # 0

convertCodeRefEventToFhir(event, careStage) ==
    LET code == Get(event.code)
        system == IF code.sys = "sct" THEN SNOMED ELSE UrnCode(code.sys)
    IN IF IsMedication(event)
       THEN Resource("MedicationAdministration", careStage, Absent, system, code.code,
                     event.time, 0, NumDose(event.dose.num))
       ELSE Resource("Procedure", careStage, Absent, system, code.code, event.time, 0,
                     IF event.dose.type = "string" /\ event.dose.text # ""
                     THEN TextDose(event.dose.text) ELSE NoDose)

GenderFromCodeRef(gender) ==
    IF ~Has(gender) THEN Absent
    ELSE CASE Get(gender).code = "248153007" -> "male"
           [] Get(gender).code = "248152002" -> "female"
           [] OTHER -> "unknown"

FirstOf(a, b) == IF Has(a) THEN a ELSE b

convertCodeRefPatientToFhir(patientData) ==
    LET bloodGroup == FirstOf(patientData.blood_group, patientData.bloodGroup)
        nhsId == FirstOf(patientData.nhs_id, patientData.nhsId)
    IN PatientResource(IF patientData.given = "" THEN Absent ELSE patientData.given,
                       GenderFromCodeRef(patientData.gender),
                       IF Has(bloodGroup) THEN Get(bloodGroup).code ELSE Absent,
                       IF Has(nhsId) THEN Get(nhsId).code ELSE Absent)

convertCodeRefAllergyToFhir(allergy, now) ==
    LET sct == Has(allergy.code) /\ Get(allergy.code).sys = "sct"
    IN Resource("AllergyIntolerance", Absent, Absent,
                IF sct THEN SNOMED ELSE "http://unknown.system",
                IF Has(allergy.code) THEN Get(allergy.code).code ELSE "unknown",
                TimeOr(allergy.recorded, now), 0, NoDose)

\* the entries one stage contributes: vitals, then conditions, then events
StageEntries(stageKey, stage) ==
    [i \in 1..Len(stage.vitals) |->
        Entry(Url(stageKey, "vital", i - 1), <<convertCodeRefVitalToFhir(stage.vitals[i], stageKey)>>)]
    \o [i \in 1..Len(stage.conditions) |->
        Entry(Url(stageKey, "condition", i - 1),
              <<convertCodeRefConditionToFhir(stage.conditions[i], stageKey)>>)]
    \o [i \in 1..Len(stage.events) |->
        Entry(Url(stageKey, "event", i - 1), <<convertCodeRefEventToFhir(stage.events[i], stageKey)>>)]

StageComplete(stage) ==
    /\ \A i \in 1..Len(stage.vitals) : HasCode(stage.vitals[i])
    /\ \A i \in 1..Len(stage.conditions) : HasCode(stage.conditions[i])
    /\ \A i \in 1..Len(stage.events) : HasCode(stage.events[i])

RECURSIVE AllStageEntries(_, _)
AllStageEntries(keys, stages) ==
    IF keys = <<>> THEN <<>>
    ELSE StageEntries(Head(keys), stages[Head(keys)]) \o AllStageEntries(Tail(keys), stages)

CompositionPlaceholder ==
    Entry(Url("", "urn:uuid:generated-composition", 0),
          <<Resource("Composition", Absent, Absent, LOINC, "60591-5", 0, 0, NoDose)>>)

\* bundleMetadata?.entries_json ? JSON.parse(bundleMetadata.entries_json) : null
OriginalEntries(payload) ==
    IF Has(payload.bundleMetadata) /\ Has(Get(payload.bundleMetadata).entries_json)
    THEN <<JsonParse(Get(Get(payload.bundleMetadata).entries_json))>>
    ELSE <<>>

ShellEntries(payload) ==
    IF Has(OriginalEntries(payload)) THEN Get(OriginalEntries(payload))
    ELSE <<CompositionPlaceholder>>

PatientEntries(payload) ==
    IF Has(payload.patient)
    THEN <<Entry(Url("", "urn:uuid:patient-example", 0),
                 <<convertCodeRefPatientToFhir(Get(payload.patient))>>)>>
    ELSE <<>>

AllergyEntries(payload, now) ==
    [i \in 1..Len(payload.allergies) |->
        Entry(Url("", "allergy", i - 1), <<convertCodeRefAllergyToFhir(payload.allergies[i], now)>>)]

NoBundle == [ok |-> FALSE, id |-> Absent, entry |-> <<>>]

convertCodeRefToFhirBundle(payload, now) ==
    IF \E k \in StageKeySet : ~StageComplete(payload.stages[k]) THEN NoBundle
    ELSE [ok |-> TRUE,
          id |-> IF Has(payload.bundleMetadata) /\ Get(payload.bundleMetadata).id # ""
                 THEN Get(payload.bundleMetadata).id ELSE "ips-example",
          entry |-> ShellEntries(payload) \o PatientEntries(payload)
                    \o AllergyEntries(payload, now)
                    \o AllStageEntries(stageKeys, payload.stages)]

(***************************************************************************)
(* View model (payloadService)                                             *)
(***************************************************************************)
\* number of distinct times of day the model tells apart within one calendar date
SlotsPerDay == 2

SUMMARY_OFFSET_MINUTES == 15

Falsy(str) == str = Absent \/ str = ""

OrEmpty(str) == IF Falsy(str) THEN "" ELSE str

\* codeRefKey: `${system}:${code}`, or the code alone without a system; <<>> is ''
codeRefKey(codeRef) ==
    IF ~Has(codeRef) THEN <<>>
    ELSE LET system == OrEmpty(Get(codeRef).sys)
             code == OrEmpty(Get(codeRef).code)
         IN IF system # "" THEN <<system, code>>
            ELSE IF code # "" THEN <<code>> ELSE <<>>

\* normaliseCodeRef(codeRef) as called without a fallbackIndex
normaliseCodeRef(codeRef) ==
    IF ~Has(codeRef) THEN [system |-> "", code |-> "Unknown code", ref |-> <<"Unknown code">>]
    ELSE [system |-> OrEmpty(Get(codeRef).sys),
          code |-> OrEmpty(Get(codeRef).code),
          ref |-> IF codeRefKey(codeRef) # <<>> THEN codeRefKey(codeRef)
                  ELSE <<"Unknown code">>]

RawItem(code, value, dose, time, onset) ==
    [dataType |-> "", code |-> normaliseCodeRef(code), value |-> value, dose |-> dose,
     time |-> time, onset |-> onset, rawDateTime |-> 0,
     isFirstDisplayedInRow |-> FALSE, noTimestamp |-> FALSE]

\* entries.map(item => !item.code ? null : {...}).filter(Boolean)
KeptEntries(entries) == SelectSeq(entries, LAMBDA item : Has(item.code))

normaliseCodeRefVitalsRaw(entries) ==
    LET kept == KeptEntries(entries)
    IN [i \in 1..Len(kept) |-> RawItem(kept[i].code, kept[i].value, NoDose, kept[i].time, 0)]

normaliseCodeRefConditionsRaw(entries) ==
    LET kept == KeptEntries(entries)
    IN [i \in 1..Len(kept) |-> RawItem(kept[i].code, 0, NoDose, 0, kept[i].onset)]

normaliseCodeRefEventsRaw(entries) ==
    LET kept == KeptEntries(entries)
    IN [i \in 1..Len(kept) |-> RawItem(kept[i].code, 0, kept[i].dose, kept[i].time, 0)]

\* item.time || item.onset || item.rawData?.dateTime || null
extractTimestamp(item) ==
    IF item.time # 0 THEN item.time
    ELSE IF item.onset # 0 THEN item.onset
    ELSE item.rawDateTime

\* the calendar date of a timestamp
formatDateForComparison(timestamp) == timestamp \div SlotsPerDay

Tagged(items, dataType) == [i \in 1..Len(items) |-> [items[i] EXCEPT !.dataType = dataType]]

\* Array.prototype.sort with (a, b) => timeA - timeB: stable, ascending
RECURSIVE InsertByTime(_, _)
InsertByTime(item, sorted) ==
    IF sorted = <<>> THEN <<item>>
    ELSE IF extractTimestamp(Head(sorted)) <= extractTimestamp(item)
    THEN <<Head(sorted)>> \o InsertByTime(item, Tail(sorted))
    ELSE <<item>> \o sorted

\* a sort that leaves the items in input order
SortByTimeKeep(items) == items

RECURSIVE SortByTime(_)
SortByTime(items) ==
    IF items = <<>> THEN <<>>
    ELSE InsertByTime(items[Len(items)], SortByTime(SubSeq(items, 1, Len(items) - 1)))

NoDate == 0 - 1

\* a walk that marks every timestamped item row-first
MarkRowFirstEvery(items, tracking) ==
    [i \in 1..Len(items) |-> [items[i] EXCEPT !.isFirstDisplayedInRow = TRUE]]

\* a walk with one date cursor shared by all data types
RECURSIVE MarkRowFirstShared(_, _)
MarkRowFirstShared(items, tracking) ==
    IF items = <<>> THEN <<>>
    ELSE LET item == Head(items)
             currentDate == formatDateForComparison(extractTimestamp(item))
             first == currentDate # tracking["vitals"]
         IN <<[item EXCEPT !.isFirstDisplayedInRow = first]>>
            \o MarkRowFirstShared(Tail(items),
                                  [t \in DOMAIN tracking |-> currentDate])

\* the walk over withTimestamps; tracking is dateTrackingByType
RECURSIVE MarkRowFirst(_, _)
MarkRowFirst(items, tracking) ==
    IF items = <<>> THEN <<>>
    ELSE LET item == Head(items)
             currentDate == formatDateForComparison(extractTimestamp(item))
             first == currentDate # tracking[item.dataType]
         IN <<[item EXCEPT !.isFirstDisplayedInRow = first]>>
            \o MarkRowFirst(Tail(items),
                            IF first THEN [tracking EXCEPT ![item.dataType] = currentDate]
                            ELSE tracking)

\* a marking that makes every untimestamped item row-first
MarkUntimestampedAll(items) ==
    [i \in 1..Len(items) |->
        [items[i] EXCEPT !.isFirstDisplayedInRow = TRUE, !.noTimestamp = TRUE]]

MarkUntimestamped(items) ==
    [i \in 1..Len(items) |->
        [items[i] EXCEPT !.isFirstDisplayedInRow = (i = 1), !.noTimestamp = TRUE]]

\* rows of the timestamped items alone
createMISTChronologicalRowsTimed(vitals, conditions, events) ==
    LET allData == Tagged(vitals, "vitals") \o Tagged(conditions, "conditions")
                   \o Tagged(events, "events")
        withTimestamps == SelectSeq(allData, LAMBDA item : extractTimestamp(item) # 0)
        tracking == [t \in {"vitals", "conditions", "events"} |-> NoDate]
    IN MarkRowFirst(SortByTime(withTimestamps), tracking)

createMISTChronologicalRows(vitals, conditions, events) ==
    LET allData == Tagged(vitals, "vitals") \o Tagged(conditions, "conditions")
                   \o Tagged(events, "events")
        withTimestamps == SelectSeq(allData, LAMBDA item : extractTimestamp(item) # 0)
        withoutTimestamps == SelectSeq(allData, LAMBDA item : extractTimestamp(item) = 0)
        tracking == [t \in {"vitals", "conditions", "events"} |-> NoDate]
    IN MarkRowFirst(SortByTime(withTimestamps), tracking)
       \o MarkUntimestamped(withoutTimestamps)

\* a pill that reads the time property alone
createStandardizedPillFromTime(type, rawData, isFirstDisplayedInRow) ==
    LET primaryTime == rawData.time
    IN [dataType |-> type, ref |-> rawData.code.ref, dateTime |-> primaryTime,
        dateDisplay |-> IF primaryTime # 0
                        THEN (IF isFirstDisplayedInRow THEN "full" ELSE "timeOnly")
                        ELSE IF rawData.noTimestamp /\ isFirstDisplayedInRow THEN "No Date"
                        ELSE ""]

\* the date part of createStandardizedPill; primaryTime = onset || time
createStandardizedPill(type, rawData, isFirstDisplayedInRow) ==
    LET primaryTime == IF rawData.onset # 0 THEN rawData.onset ELSE rawData.time
    IN [dataType |-> type, ref |-> rawData.code.ref, dateTime |-> primaryTime,
        dateDisplay |-> IF primaryTime # 0
                        THEN (IF isFirstDisplayedInRow THEN "full" ELSE "timeOnly")
                        ELSE IF rawData.noTimestamp /\ isFirstDisplayedInRow THEN "No Date"
                        ELSE ""]

StageSection(stage) ==
    LET rows == createMISTChronologicalRows(normaliseCodeRefVitalsRaw(stage.vitals),
                                            normaliseCodeRefConditionsRaw(stage.conditions),
                                            normaliseCodeRefEventsRaw(stage.events))
        allPills == [i \in 1..Len(rows) |->
                        createStandardizedPill(rows[i].dataType, rows[i],
                                               rows[i].isFirstDisplayedInRow)]
    IN [vitals |-> SelectSeq(allPills, LAMBDA pill : pill.dataType = "vitals"),
        conditions |-> SelectSeq(allPills, LAMBDA pill : pill.dataType = "conditions"),
        events |-> SelectSeq(allPills, LAMBDA pill : pill.dataType = "events"),
        allPills |-> allPills]

RECURSIVE SumOver(_, _, _)
SumOver(keys, sections, list) ==
    IF keys = <<>> THEN 0
    ELSE Len(sections[Head(keys)][list]) + SumOver(Tail(keys), sections, list)

buildCodeRefStageSections(payload) ==
    LET sections == [k \in StageKeySet |-> StageSection(payload.stages[k])]
    IN [sections |-> sections,
        totals |-> [vitals |-> SumOver(stageKeys, sections, "vitals"),
                    conditions |-> SumOver(stageKeys, sections, "conditions"),
                    events |-> SumOver(stageKeys, sections, "events")]]

SetMax(S) == CHOOSE m \in S : \A x \in S : x <= m

\* the r2 timestamps buildSummary collects
R2Times(payload) ==
    LET r2 == payload.stages["r2"]
    IN ({r2.vitals[i].time : i \in 1..Len(r2.vitals)}
        \cup {r2.conditions[i].onset : i \in 1..Len(r2.conditions)}
        \cup {r2.events[i].time : i \in 1..Len(r2.events)}) \ {0}

\* a summary that reads payload.t whatever the r2 stage holds
buildSummaryFromT(payload, totals) ==
    [totals |-> totals,
     timestamp |-> IF Has(payload.t) /\ Get(payload.t).at # 0 THEN <<Get(payload.t).at>>
                   ELSE <<>>]

\* summary.timestamp in minutes since the epoch, <<>> when it is not set;
\* new Date(payload.t * 60000) is the instant payload.t minutes after the epoch and
\* new Date(payload.t) the instant the string parses to
buildSummary(payload, totals) ==
    [totals |-> totals,
     timestamp |-> IF R2Times(payload) # {}
                   THEN <<SetMax(R2Times(payload)) + SUMMARY_OFFSET_MINUTES>>
                   ELSE IF Has(payload.t) /\ Get(payload.t).type = "number"
                   THEN <<Get(payload.t).at>>
                   ELSE IF Has(payload.t) /\ Get(payload.t).type = "string"
                           /\ Get(payload.t).at # 0
                   THEN <<Get(payload.t).at>>
                   ELSE <<>>]

mapGenderFromCodeRef(codeRef) ==
    LET key == codeRefKey(codeRef)
    IN CASE key = <<"sct", "248153007">> -> "male"
         [] key = <<"sct", "248152002">> -> "female"
         [] key = <<"sct", "337915000">> -> "other"
         [] OTHER -> "unknown"

\* the patientData object after buildCodeRefPatient has run on it
PatientDataAfterBuild(patientData) ==
    [patientData EXCEPT
        !.blood_group = IF Has(patientData.bloodGroup) /\ ~Has(@)
                        THEN patientData.bloodGroup ELSE @,
        !.nhs_id = IF Has(patientData.nhsId) /\ ~Has(@) THEN patientData.nhsId ELSE @,
        !.service_id = IF Has(patientData.serviceId) /\ ~Has(@)
                       THEN patientData.serviceId ELSE @]

buildCodeRefPatient(patientData) ==
    LET data == PatientDataAfterBuild(patientData)
        bloodGroup == normaliseCodeRef(FirstOf(data.blood_group, data.bloodGroup))
        nhsId == FirstOf(data.nhs_id, data.nhsId)
    IN PatientResource(IF data.given = "" THEN Absent ELSE data.given,
                       mapGenderFromCodeRef(data.gender),
                       IF bloodGroup.code # "" /\ bloodGroup.code # "Unknown code"
                       THEN bloodGroup.code ELSE Absent,
                       IF Has(nhsId) /\ ~Falsy(Get(nhsId).code) THEN Get(nhsId).code
                       ELSE Absent)

EmptyPatientData == PatientData("", <<>>, <<>>, <<>>, <<>>)

buildFromCodeRef(nfcPayload) ==
    LET stageResult == buildCodeRefStageSections(nfcPayload)
    IN [built |-> TRUE,
        patientResource |-> buildCodeRefPatient(IF Has(nfcPayload.patient)
                                                THEN Get(nfcPayload.patient)
                                                ELSE EmptyPatientData),
        allergies |-> nfcPayload.allergies,
        stageSections |-> stageResult.sections,
        summary |-> buildSummary(nfcPayload, stageResult.totals)]

\* the caller's payload object once buildFromCodeRef has returned
PayloadAfterBuild(nfcPayload) ==
    IF Has(nfcPayload.patient)
    THEN [nfcPayload EXCEPT !.patient = <<PatientDataAfterBuild(Get(nfcPayload.patient))>>]
    ELSE nfcPayload

(***************************************************************************)
(* Binary transport codec (codecPipeline)                                  *)
(*                                                                         *)
(* A byte string is described by what the libraries make of it: hdr is    *)
(* the result of pako.inflate, raw the result of pako.inflateRaw (<<>>    *)
(* when the call throws), and self the bytes read as a protobuf buffer.   *)
(* A protobuf buffer is described by the message each schema decodes it   *)
(* to (<<>> when decode throws).  A transport text is described by the    *)
(* alphabet of its characters and the bytes it stands for.                *)
(***************************************************************************)
Buffer(cur, leg) == [cur |-> cur, leg |-> leg]

Undecodable == Buffer(<<>>, <<>>)

Bytes(hdr, raw, self) == [hdr |-> hdr, raw |-> raw, self |-> self]

Text(alphabet, padded, data) == [alphabet |-> alphabet, padded |-> padded, bytes |-> data]

NoBytes == Bytes(<<>>, <<>>, Undecodable)

NoText == Text("none", FALSE, NoBytes)

\* util/base64.js normaliseBase64: '-' -> '+', '_' -> '/', '=' padding added
normaliseBase64(value) ==
    [value EXCEPT !.alphabet = IF @ = "url" THEN "std" ELSE @, !.padded = TRUE]

\* a decoder that accepts every character
base64ToUint8ArrayLenient(value) == [ok |-> TRUE, bytes |-> normaliseBase64(value).bytes]

\* the browser's atob throws on a character outside the standard alphabet
base64ToUint8Array(value) ==
    LET normalised == normaliseBase64(value)
    IN [ok |-> normalised.alphabet = "std", bytes |-> normalised.bytes]

\* btoa: standard alphabet ('+', '/'), padded with '='
btoa(binary) == Text("std", TRUE, binary)

\* pako.deflate: a zlib stream, which only pako.inflate reads back
deflate(buffer) == Bytes(<<buffer>>, <<>>, Undecodable)

Candidate(src, buffer) == [src |-> src, buffer |-> buffer]

\* an inflater that keeps the result of both inflations
attemptInflationsBoth(data) ==
    (IF Has(data.hdr) THEN <<Candidate("inflate", Get(data.hdr))>> ELSE <<>>)
    \o (IF Has(data.raw) THEN <<Candidate("inflateRaw", Get(data.raw))>> ELSE <<>>)
    \o <<Candidate("bytes", data.self)>>

attemptInflations(data) ==
    IF Has(data.hdr) THEN <<Candidate("inflate", Get(data.hdr)), Candidate("bytes", data.self)>>
    ELSE IF Has(data.raw)
    THEN <<Candidate("inflateRaw", Get(data.raw)), Candidate("bytes", data.self)>>
    ELSE <<Candidate("bytes", data.self)>>

\* pako.inflateRaw is called in the catch block of pako.inflate only
InflateRawCalled(data) == ~Has(data.hdr)

\* payloadType.create(payload): protobuf.js reads the camelCase field names of the
\* parsed schema, so properties under other names are not part of the message
createMessage(payload) ==
    [payload EXCEPT
        !.patient = IF Has(@)
                    THEN <<[Get(@) EXCEPT !.blood_group = <<>>, !.nhs_id = <<>>,
                                          !.service_id = <<>>]>>
                    ELSE <<>>,
        !.bundleMetadata = IF Has(@) THEN <<[Get(@) EXCEPT !.entries_json = <<>>]>>
                           ELSE <<>>,
        !.D = <<>>, !.P = <<>>]

\* payloadType.encode(message).finish()
encodeMessage(message) == Buffer(<<message>>, <<>>)

convertFromProtobufNaming(object) ==
    IF ~Has(object.patient) THEN object
    ELSE LET patient == Get(object.patient)
             moveBg == Has(patient.bloodGroup) /\ ~Has(patient.blood_group)
             moveNhs == Has(patient.nhsId) /\ ~Has(patient.nhs_id)
             moveSvc == Has(patient.serviceId) /\ ~Has(patient.service_id)
         IN [object EXCEPT !.patient = <<
              [patient EXCEPT
                 !.blood_group = IF moveBg THEN patient.bloodGroup ELSE @,
                 !.bloodGroup = IF moveBg THEN <<>> ELSE @,
                 !.nhs_id = IF moveNhs THEN patient.nhsId ELSE @,
                 !.nhsId = IF moveNhs THEN <<>> ELSE @,
                 !.service_id = IF moveSvc THEN patient.serviceId ELSE @,
                 !.serviceId = IF moveSvc THEN <<>> ELSE @]>>]

\* a decoder that reads each buffer with the other schema
DecodeMessageSwapped(payloadType, buffer) ==
    IF payloadType = "coderef" THEN buffer.leg ELSE buffer.cur

\* payloadType.decode(buffer) for the schema named; <<>> when it throws
DecodeMessage(payloadType, buffer) ==
    IF payloadType = "coderef" THEN buffer.cur ELSE buffer.leg

\* decodeWith: decode, toObject({defaults: false}), convertFromProtobufNaming
decodeWith(payloadType, buffer) ==
    LET message == DecodeMessage(payloadType, buffer)
    IN IF Has(message) THEN <<convertFromProtobufNaming(Get(message))>> ELSE <<>>

\* a tryDecode that keeps the last buffer that decodes
tryDecodeLast(payloadType, bufs) ==
    LET hits == {i \in 1..Len(bufs) : Has(decodeWith(payloadType, bufs[i].buffer))}
    IN IF hits = {} THEN [index |-> 0, object |-> EmptyPayload]
       ELSE LET last == CHOOSE i \in hits : \A j \in hits : j <= i
            IN [index |-> last, object |-> Get(decodeWith(payloadType, bufs[last].buffer))]

\* tryDecode: the first buffer that decodes; index 0 is the null result
tryDecode(payloadType, bufs) ==
    LET hits == {i \in 1..Len(bufs) : Has(decodeWith(payloadType, bufs[i].buffer))}
    IN IF hits = {} THEN [index |-> 0, object |-> EmptyPayload]
       ELSE LET first == CHOOSE i \in hits : \A j \in hits : i <= j
            IN [index |-> first, object |-> Get(decodeWith(payloadType, bufs[first].buffer))]

\* the decodeWith calls tryDecode makes, in order
TryDecodeCalls(payloadType, bufs) ==
    LET found == tryDecode(payloadType, bufs).index
        last == IF found = 0 THEN Len(bufs) ELSE found
    IN [i \in 1..last |-> [schema |-> payloadType, candidate |-> i]]

NoOutcome ==
    [status |-> "none", error |-> "", fragment |-> NoText, data |-> EmptyPayload,
     schemaVersion |-> "", candidate |-> 0]

Threw(message) == [NoOutcome EXCEPT !.status = "threw", !.error = message]

ReturnedFragment(text) == [NoOutcome EXCEPT !.status = "returned", !.fragment = text]

ReturnedData(object, schemaVersion, index) ==
    [NoOutcome EXCEPT !.status = "returned", !.data = object,
                      !.schemaVersion = schemaVersion, !.candidate = index]

(***************************************************************************)
(* Inputs the operations are exercised on                                  *)
(***************************************************************************)
SeqsUpTo(S, n) == UNION {[1..k -> S] : k \in 0..n}

VitalItem(code, time, value) == [code |-> code, time |-> time, value |-> value]

ConditionItem(code, onset) == [code |-> code, onset |-> onset]

EventItem(code, time, dose) == [code |-> code, time |-> time, dose |-> dose]

AllergyItem(code, recorded) == [code |-> code, recorded |-> recorded]

HeartRate == <<CodeRefOf("loinc", "8867-4")>>

Fracture == <<CodeRefOf("sct", "125605004")>>

Morphine == <<CodeRefOf("sct", "373529000")>>

Tourniquet == <<CodeRefOf("sct", "112738007")>>

Penicillin == <<CodeRefOf("sct", "91936005")>>

\* items as a decoded payload may carry them; <<>> is an item without a code
VitalItems ==
    {VitalItem(HeartRate, 1, 72), VitalItem(HeartRate, MaxTime, 80), VitalItem(<<>>, 2, 60),
     VitalItem(<<CodeRefOf("", "")>>, 1, 50)}

ConditionItems == {ConditionItem(Fracture, 2), ConditionItem(<<>>, 0)}

EventItems ==
    {EventItem(Morphine, MaxTime, NumDose(5)), EventItem(Tourniquet, 0, TextDose("")),
     EventItem(<<>>, 1, NumDose(0))}

\* a stage with up to MaxItems vitals and one item fewer of the other two kinds
StageContents ==
    {[vitals |-> v, conditions |-> c, events |-> e] :
        v \in SeqsUpTo(VitalItems, MaxItems), c \in SeqsUpTo(ConditionItems, MaxItems - 1),
        e \in SeqsUpTo(EventItems, MaxItems - 1)}

CodedStage ==
    [vitals |-> <<VitalItem(HeartRate, 1, 72)>>, conditions |-> <<ConditionItem(Fracture, 2)>>,
     events |-> <<EventItem(Morphine, MaxTime, NumDose(5))>>]

Male == <<CodeRefOf("sct", "248153007")>>

NhsNumber == <<CodeRefOf("nhs", "4857773456")>>

\* patients as a caller may hand them to the encoder
PatientDatas ==
    {PatientData("Tom", Male, <<>>, <<>>, <<>>),
     PatientData("Tom", Male, <<DEFAULT_BLOOD_GROUP>>, NhsNumber, <<>>),
     [PatientData("Tom", <<>>, <<>>, <<>>, <<>>) EXCEPT !.bloodGroup = <<DEFAULT_BLOOD_GROUP>>]}

\* CodeRef payloads handed to encodeToFragment
EncodePayloads ==
    {Payload(p, a, <<>>, s, t) :
        p \in {<<>>} \cup {<<d>> : d \in PatientDatas},
        a \in {<<>>, <<AllergyItem(Penicillin, 1)>>},
        s \in {EmptyStages} \cup {[EmptyStages EXCEPT ![k] = CodedStage] : k \in StageKeySet},
        t \in {<<>>, <<NumberT(2)>>}}

\* CodeRef payloads handed to convertCodeRefToFhirBundle
ConvertPayloads ==
    {Payload(p, a, <<>>, [EmptyStages EXCEPT !["poi"] = s], <<>>) :
        p \in {<<>>, <<PatientData("Tom", Male, <<>>, <<>>, <<>>)>>},
        a \in {<<>>, <<AllergyItem(Penicillin, 1)>>},
        s \in StageContents}

\* CodeRef payloads handed to buildFromCodeRef
ViewPayloads ==
    {Payload(<<p>>, <<>>, <<>>, [EmptyStages EXCEPT ![k] = s], t) :
        p \in {PatientData("Tom", Male, <<>>, <<>>, <<>>),
               [PatientData("Tom", Male, <<>>, <<>>, <<>>)
                   EXCEPT !.bloodGroup = <<DEFAULT_BLOOD_GROUP>>]},
        k \in {"poi", "r2"}, s \in StageContents,
        t \in {<<>>, <<NumberT(2)>>, <<StringT(MaxTime)>>, <<StringT(0)>>}}

PatientResources ==
    {PatientResource("Tom", "male", Absent, Absent),
     PatientResource("Tom", "other", "278149003", "4857773456")}

\* clinical resources of a bundle; the care-stage values are those of the extension
ClinicalResources ==
    {Resource("Condition", "poi", Absent, SNOMED, "125605004", 1, 0, NoDose),
     Resource("Condition", Absent, Absent, SNOMED, "125605004", 1, 0, NoDose),
     Resource("Condition", "Role 4", Absent, SNOMED, "125605004", 2, 0, NoDose),
     Resource("Observation", "r2", "vital-signs", LOINC, "8867-4", 2, 72, NoDose),
     Resource("Observation", "r2", "laboratory", LOINC, "718-7", 2, 13, NoDose),
     Resource("MedicationAdministration", "mevac", Absent, SNOMED, "373529000", MaxTime, 0,
              NumDose(5)),
     Resource("MedicationAdministration", " r1 ", Absent, SNOMED, "373529000", 0, 0, NoDose),
     Resource("Procedure", "Fwd Tacevac", Absent, SNOMED, "112738007", 1, 0,
              TextDose("applied")),
     Resource("AllergyIntolerance", Absent, Absent, SNOMED, "91936005", 1, 0, NoDose),
     Resource("Composition", Absent, Absent, LOINC, "60591-5", 0, 0, NoDose)}

ClinicalEntries ==
    {Entry(Url("", "original", 0), <<r>>) : r \in ClinicalResources}
    \cup {Entry(Url("", "original", 0), <<>>)}

\* an entry list: an optional Patient entry, then up to MaxResources further entries,
\* with fullUrls numbered in list order
Numbered(entries) ==
    [i \in 1..Len(entries) |-> [entries[i] EXCEPT !.fullUrl = Url("", "original", i)]]

EntryLists ==
    {Numbered(p \o c) :
        p \in {<<>>} \cup {<<Entry(Url("", "original", 0), <<r>>)>> : r \in PatientResources},
        c \in SeqsUpTo(ClinicalEntries, MaxResources)}

Bundles == {Bundle("bundle-1", e) : e \in EntryLists}

FhirPayloads == Bundles \cup {BarePatient(r) : r \in PatientResources}

\* what the current and the legacy schema make of arbitrary bytes; n tells the
\* candidates of one fragment apart
CurrentObject(n) == [EmptyPayload EXCEPT !.t = <<NumberT(n)>>]

LegacyObject(n) == [EmptyPayload EXCEPT !.D = <<n>>, !.P = <<n>>]

Buffers(n) ==
    {Buffer(c, l) : c \in {<<>>, <<CurrentObject(n)>>}, l \in {<<>>, <<LegacyObject(n)>>}}

MaybeOf(S) == {<<>>} \cup {<<x>> : x \in S}

ByteStrings ==
    {Bytes(h, r, s) : h \in MaybeOf(Buffers(1)), r \in MaybeOf(Buffers(2)), s \in Buffers(MaxTime)}

\* fragments handed to decodeFragment
Fragments ==
    {Text(a, FALSE, b) : a \in {"url", "std"}, b \in ByteStrings}
    \cup {Text("invalid", FALSE, NoBytes)}

Input(op, fragment, payload, fhir) ==
    [op |-> op, fragment |-> fragment, payload |-> payload, fhir |-> fhir]

(***************************************************************************)
(* The codec as a state machine.  Each action is the code between two     *)
(* awaits of encodeToFragment or decodeFragment.                          *)
(***************************************************************************)
NoViewModel == [buildFromCodeRef(EmptyPayload) EXCEPT !.built = FALSE]

NoRows == [built |-> FALSE, rows |-> <<>>, pills |-> <<>>]

NoLegacyResult ==
    [resolved |-> FALSE, entries |-> <<>>, index |-> <<>>, codebook |-> <<>>, code |-> <<>>]

\* formatState as the script creates it
InitialFormatState ==
    [leftMode |-> "fragment", originalFhir |-> <<>>, originalFragment |-> <<>>]

NoLoads == [fetched |-> [current |-> 0, legacy |-> 0],
            failed |-> [current |-> 0, legacy |-> 0]]

Idle ==
    /\ pc = "ready"
    /\ fragmentText = NoText
    /\ rawBytes = NoBytes
    /\ candidates = <<>>
    /\ rawInflateTried = FALSE
    /\ payloadTypePromise = "null"
    /\ legacyPayloadTypePromise = "null"
    /\ attempts = <<>>
    /\ outcome = NoOutcome
    /\ stageRows = NoRows
    /\ callPc = <<>>
    /\ schemaLoads = NoLoads
    /\ legacyCode = NoLegacyResult
    /\ formatState = InitialFormatState
    /\ leftInput = <<>>
    /\ lastFragment = <<>>
    /\ srcBundle = EmptyBundle
    /\ codeRefPayload = EmptyPayload
    /\ outBundle = NoBundle
    /\ viewModel = NoViewModel

CodecInputs ==
    {Input("decode", f, EmptyPayload, EmptyBundle) : f \in Fragments}
    \cup {Input("encode", NoText, p, EmptyBundle) : p \in EncodePayloads}
    \cup {Input("encodeFhir", NoText, EmptyPayload, b) : b \in FhirPayloads}

Init ==
    /\ input \in CodecInputs
    /\ Idle

\* ensurePayloadType / ensureLegacyPayloadType up to the return of the promise
Ensure(promise) == IF promise = "null" THEN "pending" ELSE promise

\* the schema fetches that can settle a promise: a resolved one stays resolved
Settlements(promise) == IF promise = "resolved" THEN {TRUE} ELSE {TRUE, FALSE}

EncodeFailure == "Failed to encode payload to fragment"

\* encodeToFragment up to `await ensurePayloadType()`
EncodeStart ==
    /\ pc = "ready"
    /\ input.op \in {"encode", "encodeFhir"}
    /\ LET converted == IF input.op = "encodeFhir" THEN convertFhirToCodeRef(input.fhir, Now)
                        ELSE [ok |-> TRUE, error |-> "", payload |-> input.payload]
       IN IF converted.ok
          THEN /\ codeRefPayload' =
                    IF input.op = "encodeFhir"
                    THEN [converted.payload EXCEPT
                            !.originalBundleJson = <<JsonStringify(input.fhir)>>]
                    ELSE converted.payload
               /\ payloadTypePromise' = Ensure(payloadTypePromise)
               /\ pc' = "encodeAwaitType"
               /\ UNCHANGED outcome
          ELSE /\ outcome' = Threw(EncodeFailure)
               /\ pc' = "done"
               /\ UNCHANGED <<codeRefPayload, payloadTypePromise>>
    /\ UNCHANGED <<input, legacyCode, paneVars, stageRows, callPc, schemaLoads,
                 fragmentText, rawBytes, candidates, rawInflateTried,
                   legacyPayloadTypePromise, attempts, srcBundle, outBundle, viewModel>>

\* encodeToFragment from the settled schema promise to its return
EncodeFinish ==
    /\ pc = "encodeAwaitType"
    /\ \E loaded \in Settlements(payloadTypePromise) :
        IF loaded
        THEN /\ payloadTypePromise' = "resolved"
             /\ outcome' = ReturnedFragment(
                    btoa(deflate(encodeMessage(createMessage(codeRefPayload)))))
             /\ pc' = "encoded"
        ELSE /\ payloadTypePromise' = "null"
             /\ outcome' = Threw(EncodeFailure)
             /\ pc' = "done"
    /\ UNCHANGED <<input, legacyCode, paneVars, stageRows, callPc, schemaLoads,
                 fragmentText, rawBytes, candidates, rawInflateTried,
                   legacyPayloadTypePromise, attempts, srcBundle, codeRefPayload,
                   outBundle, viewModel>>

\* decodeFragment up to `await ensurePayloadType()`, on the caller's fragment or on
\* the fragment encodeToFragment has just returned
DecodeStart ==
    /\ \/ pc = "ready" /\ input.op = "decode"
       \/ pc = "encoded"
    /\ LET fragment == IF pc = "encoded" THEN outcome.fragment ELSE input.fragment
           decoded == base64ToUint8Array(fragment)
       IN /\ fragmentText' = fragment
          /\ IF decoded.ok
             THEN /\ rawBytes' = decoded.bytes
                  /\ candidates' = attemptInflations(decoded.bytes)
                  /\ rawInflateTried' = InflateRawCalled(decoded.bytes)
                  /\ payloadTypePromise' = Ensure(payloadTypePromise)
                  /\ outcome' = NoOutcome
                  /\ pc' = "decodeAwaitType"
             ELSE /\ outcome' = Threw("InvalidCharacterError")
                  /\ pc' = "done"
                  /\ UNCHANGED <<rawBytes, candidates, rawInflateTried, payloadTypePromise>>
    /\ UNCHANGED <<input, legacyCode, paneVars, stageRows, callPc, schemaLoads,
                 legacyPayloadTypePromise, attempts, srcBundle, codeRefPayload,
                   outBundle, viewModel>>

\* decodeFragment from the settled current-schema promise to the legacy await
DecodeCurrent ==
    /\ pc = "decodeAwaitType"
    /\ \E loaded \in Settlements(payloadTypePromise) :
        IF ~loaded
        THEN /\ payloadTypePromise' = "null"
             /\ outcome' = Threw("Unable to load Proto schema")
             /\ pc' = "done"
             /\ UNCHANGED <<attempts, legacyPayloadTypePromise>>
        ELSE LET coderefResult == tryDecode("coderef", candidates)
             IN /\ payloadTypePromise' = "resolved"
                /\ attempts' = attempts \o TryDecodeCalls("coderef", candidates)
                /\ IF coderefResult.index # 0
                   THEN /\ outcome' = ReturnedData(coderefResult.object, "coderef",
                                                   coderefResult.index)
                        /\ pc' = "done"
                        /\ UNCHANGED legacyPayloadTypePromise
                   ELSE /\ legacyPayloadTypePromise' = Ensure(legacyPayloadTypePromise)
                        /\ pc' = "decodeAwaitLegacyType"
                        /\ UNCHANGED outcome
    /\ UNCHANGED <<input, legacyCode, paneVars, stageRows, callPc, schemaLoads,
                 fragmentText, rawBytes, candidates, rawInflateTried, srcBundle,
                   codeRefPayload, outBundle, viewModel>>

\* decodeFragment from the settled legacy-schema promise to its return
DecodeLegacy ==
    /\ pc = "decodeAwaitLegacyType"
    /\ \E loaded \in Settlements(legacyPayloadTypePromise) :
        IF ~loaded
        THEN /\ legacyPayloadTypePromise' = "null"
             /\ outcome' = Threw("Unable to load legacy Proto schema")
             /\ UNCHANGED attempts
        ELSE LET legacyResult == tryDecode("legacy", candidates)
             IN /\ legacyPayloadTypePromise' = "resolved"
                /\ attempts' = attempts \o TryDecodeCalls("legacy", candidates)
                /\ outcome' = IF legacyResult.index # 0
                              THEN ReturnedData(legacyResult.object, "legacy",
                                                legacyResult.index)
                              ELSE Threw("Unable to decode NFC payload fragment.")
    /\ pc' = "done"
    /\ UNCHANGED <<input, legacyCode, paneVars, stageRows, callPc, schemaLoads,
                 fragmentText, rawBytes, candidates, rawInflateTried,
                   payloadTypePromise, srcBundle, codeRefPayload, outBundle, viewModel>>

Next == EncodeStart \/ EncodeFinish \/ DecodeStart \/ DecodeCurrent \/ DecodeLegacy

Spec == Init /\ [][Next]_vars

(***************************************************************************)
(* The two-way converter: Bundle -> CodeRef, then CodeRef -> Bundle on the *)
(* payload just produced or on a payload the caller supplies.             *)
(***************************************************************************)
ConvertInputs ==
    {Input("fromFhir", NoText, EmptyPayload, b) : b \in FhirPayloads}
    \cup {Input("fromCodeRef", NoText, p, EmptyBundle) : p \in ConvertPayloads}

InitConvert ==
    /\ input \in ConvertInputs
    /\ Idle

\* convertFhirToCodeRef(bundle)
BundleToCodeRef ==
    /\ pc = "ready"
    /\ input.op = "fromFhir"
    /\ LET converted == convertFhirToCodeRef(input.fhir, Now)
       IN /\ srcBundle' = input.fhir
          /\ IF converted.ok
             THEN /\ codeRefPayload' = converted.payload
                  /\ pc' = "converted"
                  /\ UNCHANGED outcome
             ELSE /\ outcome' = Threw(converted.error)
                  /\ pc' = "done"
                  /\ UNCHANGED codeRefPayload
    /\ UNCHANGED <<input, legacyCode, paneVars, stageRows, callPc, schemaLoads,
                 fragmentText, rawBytes, candidates, rawInflateTried,
                   payloadTypePromise, legacyPayloadTypePromise, attempts, outBundle,
                   viewModel>>

\* convertCodeRefToFhirBundle(codeRefPayload)
CodeRefToBundle ==
    /\ \/ pc = "ready" /\ input.op = "fromCodeRef"
       \/ pc = "converted"
    /\ LET payload == IF pc = "converted" THEN codeRefPayload ELSE input.payload
           converted == convertCodeRefToFhirBundle(payload, Now)
       IN /\ codeRefPayload' = payload
          /\ outBundle' = converted
          /\ outcome' = IF converted.ok THEN [NoOutcome EXCEPT !.status = "returned"]
                        ELSE Threw("TypeError")
    /\ pc' = "done"
    /\ UNCHANGED <<input, legacyCode, paneVars, stageRows, callPc, schemaLoads,
                 fragmentText, rawBytes, candidates, rawInflateTried,
                   payloadTypePromise, legacyPayloadTypePromise, attempts, srcBundle,
                   viewModel>>

NextConvert == BundleToCodeRef \/ CodeRefToBundle

SpecConvert == InitConvert /\ [][NextConvert]_vars

(***************************************************************************)
(* The view-model builder on a CodeRef payload                             *)
(***************************************************************************)
ViewInputs == {Input("view", NoText, p, EmptyBundle) : p \in ViewPayloads}

InitView ==
    /\ input \in ViewInputs
    /\ Idle

\* buildFromCodeRef(nfcPayload); the payload object is the caller's own
BuildFromCodeRef ==
    /\ pc = "ready"
    /\ input.op = "view"
    /\ viewModel' = buildFromCodeRef(input.payload)
    /\ codeRefPayload' = PayloadAfterBuild(input.payload)
    /\ pc' = "done"
    /\ UNCHANGED <<input, legacyCode, paneVars, stageRows, callPc, schemaLoads,
                 fragmentText, rawBytes, candidates, rawInflateTried,
                   payloadTypePromise, legacyPayloadTypePromise, attempts, outcome,
                   srcBundle, outBundle>>

NextView == BuildFromCodeRef

SpecView == InitView /\ [][NextView]_vars

(***************************************************************************)
(* Properties of the transport codec (specification Spec)                  *)
(***************************************************************************)
SetMin(S) == CHOOSE m \in S : \A x \in S : m <= x

\* the candidates of the fragment in hand that a schema's decode accepts
DecodableUnder(schema) ==
    {i \in 1..Len(candidates) :
        IF schema = "coderef" THEN Has(candidates[i].buffer.cur)
        ELSE Has(candidates[i].buffer.leg)}

DecodeReturned == pc = "done" /\ outcome.status = "returned" /\ outcome.candidate # 0

RoundTripReturned == DecodeReturned /\ input.op = "encode"

EqualExceptRegeneratedT(decoded, original) ==
    IF Has(original.t) THEN decoded = original
    ELSE [decoded EXCEPT !.t = <<>>] = original

\* C1: decoding the fragment produced by encoding a CodeRef payload P returns a
\* payload equal to P in every field, except that a creation timestamp t absent
\* from P may be regenerated.
RoundTripIdentity ==
    RoundTripReturned => EqualExceptRegeneratedT(outcome.data, input.payload)

\* C2 as stated: negotiation is candidate-major, so the result comes from the first
\* candidate that decodes under either schema, tagged coderef if the current schema
\* accepts that candidate and legacy otherwise.
CandidateMajorNegotiation ==
    DecodeReturned =>
        LET first == SetMin(DecodableUnder("coderef") \cup DecodableUnder("legacy"))
        IN /\ outcome.candidate = first
           /\ outcome.schemaVersion =
                IF first \in DecodableUnder("coderef") THEN "coderef" ELSE "legacy"

\* C2 as the code has it: negotiation is schema-major.  Every candidate is tried
\* under the current schema, in list order, before any is tried under the legacy
\* schema; the result comes from the first candidate the current schema accepts,
\* and only when it accepts none from the first candidate the legacy schema accepts.
SchemaMajorNegotiation ==
    DecodeReturned =>
        /\ DecodableUnder("coderef") # {} =>
              /\ outcome.schemaVersion = "coderef"
              /\ outcome.candidate = SetMin(DecodableUnder("coderef"))
        /\ DecodableUnder("coderef") = {} =>
              /\ outcome.schemaVersion = "legacy"
              /\ outcome.candidate = SetMin(DecodableUnder("legacy"))
        /\ \A j \in 1..Len(attempts) :
              attempts[j].schema = "legacy" =>
                 /\ \A k \in j..Len(attempts) : attempts[k].schema = "legacy"
                 /\ \A i \in 1..Len(candidates) :
                       \E k \in 1..(j - 1) :
                          attempts[k] = [schema |-> "coderef", candidate |-> i]
        /\ \A j \in 1..(Len(attempts) - 1) :
              attempts[j].schema = attempts[j + 1].schema =>
                 attempts[j + 1].candidate = attempts[j].candidate + 1

\* C2 witness: the first candidate decodes only under the legacy schema, the second
\* under the current schema, and the second is returned tagged coderef
LaterCurrentBeatsEarlierLegacy ==
    /\ DecodeReturned
    /\ Len(candidates) = 2
    /\ DecodableUnder("coderef") = {2}
    /\ 1 \in DecodableUnder("legacy")
    /\ outcome.candidate = 2
    /\ outcome.schemaVersion = "coderef"

\* C3: whenever a candidate decodes under the current schema (and the schema has
\* loaded), decode returns the current-schema result tagged coderef, even if the same
\* bytes also decode under the legacy schema; and the returned schemaVersion names
\* the schema that produced the returned data.
CurrentSchemaPreferred ==
    /\ DecodeReturned =>
          LET chosen == candidates[outcome.candidate].buffer
          IN /\ outcome.schemaVersion \in {"coderef", "legacy"}
             /\ outcome.schemaVersion = "coderef" =>
                   /\ Has(chosen.cur)
                   /\ outcome.data = convertFromProtobufNaming(Get(chosen.cur))
             /\ outcome.schemaVersion = "legacy" =>
                   /\ Has(chosen.leg)
                   /\ outcome.data = convertFromProtobufNaming(Get(chosen.leg))
                   /\ DecodableUnder("coderef") = {}
    /\ (pc = "done" /\ payloadTypePromise = "resolved" /\ DecodableUnder("coderef") # {}) =>
          /\ outcome.status = "returned"
          /\ outcome.schemaVersion = "coderef"

\* C3 witness: the returned candidate decodes under both schemas
BothSchemasAccept ==
    /\ DecodeReturned
    /\ outcome.schemaVersion = "coderef"
    /\ Has(candidates[outcome.candidate].buffer.cur)
    /\ Has(candidates[outcome.candidate].buffer.leg)

Inflated == pc \in {"decodeAwaitType", "decodeAwaitLegacyType"}

\* C4 as stated: raw inflation is attempted, and its result kept as the second of
\* three candidates, even when header inflation succeeded; the unmodified bytes are
\* the last candidate.
ThreeCandidates ==
    Inflated =>
        /\ rawInflateTried
        /\ candidates[Len(candidates)] = Candidate("bytes", rawBytes.self)
        /\ (Has(rawBytes.hdr) /\ Has(rawBytes.raw)) =>
              /\ Len(candidates) = 3
              /\ candidates[2] = Candidate("inflateRaw", Get(rawBytes.raw))

\* C4 as the code has it: the list holds one inflation result at most.  It is the
\* header-inflate result when header inflation succeeds; raw inflation is attempted
\* only when header inflation has failed and its result is kept when it succeeds;
\* the unmodified bytes are always the last candidate.
InflationCandidates ==
    Inflated =>
        /\ candidates[Len(candidates)] = Candidate("bytes", rawBytes.self)
        /\ rawInflateTried <=> ~Has(rawBytes.hdr)
        /\ Has(rawBytes.hdr) =>
              candidates = <<Candidate("inflate", Get(rawBytes.hdr)),
                             Candidate("bytes", rawBytes.self)>>
        /\ (~Has(rawBytes.hdr) /\ Has(rawBytes.raw)) =>
              candidates = <<Candidate("inflateRaw", Get(rawBytes.raw)),
                             Candidate("bytes", rawBytes.self)>>
        /\ (~Has(rawBytes.hdr) /\ ~Has(rawBytes.raw)) =>
              candidates = <<Candidate("bytes", rawBytes.self)>>

\* C4 witness: bytes that both inflations accept yield two candidates, and raw
\* inflation was not attempted
HeaderInflateSkipsRaw ==
    /\ Inflated
    /\ Has(rawBytes.hdr)
    /\ Has(rawBytes.raw)
    /\ Len(candidates) = 2
    /\ ~rawInflateTried

\* the stage an error of decodeFragment stands for
ErrorStage(message) ==
    CASE message = "InvalidCharacterError" -> "base64"
      [] message = "Unable to decode NFC payload fragment." -> "schema"
      [] message \in {"Unable to load Proto schema", "Unable to load legacy Proto schema"} ->
            "schema-load"
      [] OTHER -> "other"

DecodeThrew == pc = "done" /\ input.op = "decode" /\ outcome.status = "threw"

FromBundle == input.op = "fromFhir" /\ srcBundle.resourceType = "Bundle"

BundleConverted == FromBundle /\ pc \in {"converted", "done"} /\ Has(codeRefPayload.patient)

\* C6: Bundle -> CodeRef -> Bundle reproduces the entry list of the bundle: each
\* resource appears once, with no duplicated or extra entries.
BundleRoundTripExact ==
    (FromBundle /\ pc = "done" /\ outBundle.ok) => outBundle.entry = srcBundle.entry

\* C7: a bundle whose patient has no blood-group extension converts to a payload
\* whose patient blood group is the default code sct:278152006.
DefaultBloodGroup ==
    (BundleConverted
     /\ Get(Head(FindPatient(srcBundle.entry)).resource).bloodGroupExt = Absent) =>
        Get(codeRefPayload.patient).blood_group = <<DEFAULT_BLOOD_GROUP>>

RECURSIVE CountItems(_, _)
CountItems(keys, stages) ==
    IF keys = <<>> THEN 0
    ELSE Len(stages[Head(keys)].vitals) + Len(stages[Head(keys)].conditions)
         + Len(stages[Head(keys)].events) + CountItems(Tail(keys), stages)

\* C8: CodeRef -> Bundle on a payload with an item that has no code completes
\* without raising, and every item of the payload is still emitted.
IncompleteItemDegrades ==
    (input.op = "fromCodeRef" /\ pc = "done") =>
        /\ outcome.status = "returned"
        /\ outBundle.ok
        /\ Len(outBundle.entry) =
              1 + Len(PatientEntries(input.payload)) + Len(input.payload.allergies)
              + CountItems(stageKeys, input.payload.stages)

\* the entries of a bundle that are stage-bound clinical resources carrying a
\* care-stage extension
StagedEntries(entries) ==
    SelectSeq(entries,
              LAMBDA e : /\ Has(e.resource)
                         /\ BucketListOf(Get(e.resource)) # Absent
                         /\ Get(e.resource).careStage # Absent)

\* C10: Bundle -> CodeRef places every Condition, vital-sign Observation,
\* MedicationAdministration and Procedure that carries a care-stage extension in
\* exactly one of the nine stage buckets, and a resource without the extension is
\* left out of all buckets without an error.
EveryStagedResourceBucketed ==
    (FromBundle /\ pc \in {"converted", "done"} /\ FindPatient(srcBundle.entry) # <<>>) =>
        /\ outcome.status # "threw"
        /\ CountItems(stageKeys, codeRefPayload.stages) = Len(StagedEntries(srcBundle.entry))

(***************************************************************************)
(* Properties of the view model (specification SpecView)                   *)
(***************************************************************************)
RECURSIVE CountList(_, _, _)
CountList(keys, stages, list) ==
    IF keys = <<>> THEN 0
    ELSE Len(stages[Head(keys)][list]) + CountList(Tail(keys), stages, list)

\* C9: the totals of the view model equal the number of vitals, conditions and
\* events in the nine stages of the payload; an item without a code is counted
\* under a placeholder, never dropped.
TotalsCountEveryItem ==
    viewModel.built =>
        /\ viewModel.summary.totals.vitals = CountList(stageKeys, input.payload.stages, "vitals")
        /\ viewModel.summary.totals.conditions =
              CountList(stageKeys, input.payload.stages, "conditions")
        /\ viewModel.summary.totals.events = CountList(stageKeys, input.payload.stages, "events")

(***************************************************************************)
(* Operations handed a FHIR payload: direct conversion, encoding, and      *)
(* building a view model from it (buildViewModelFromObject).               *)
(***************************************************************************)
EmptyStageData == [sections |-> <<>>, summary |-> <<>>, allergies |-> <<>>]

\* buildStageSectionsFromBundle: a conversion error is caught and logged
buildStageSectionsFromBundle(bundle, now) ==
    IF bundle.resourceType # "Bundle" THEN EmptyStageData
    ELSE LET converted == convertFhirToCodeRef(bundle, now)
             stageResult == buildCodeRefStageSections(converted.payload)
         IN IF converted.ok
            THEN [sections |-> <<stageResult.sections>>,
                  summary |-> <<buildSummary(converted.payload, stageResult.totals)>>,
                  allergies |-> converted.payload.allergies]
            ELSE EmptyStageData

\* buildFromFhir(patientResource, options); patientResource is <<>> for null
buildFromFhir(patientResource, stageData) ==
    [built |-> TRUE, type |-> "fhir", patientResource |-> patientResource,
     allergies |-> stageData.allergies, stageSections |-> stageData.sections,
     summary |-> stageData.summary]

\* buildViewModelFromObject on a Bundle or on a bare Patient resource
buildViewModelFromFhir(payload, now) ==
    IF payload.resourceType = "Patient" THEN buildFromFhir(payload.patient, EmptyStageData)
    ELSE LET patientEntry == FindPatient(payload.entry)
         IN buildFromFhir(IF patientEntry = <<>> THEN <<>> ELSE Head(patientEntry).resource,
                          buildStageSectionsFromBundle(payload, now))

FhirInputs ==
    {Input(op, NoText, EmptyPayload, b) :
        op \in {"fromFhir", "encodeFhir", "viewFhir"}, b \in FhirPayloads}

InitFhir ==
    /\ input \in FhirInputs
    /\ Idle

\* buildViewModelFromObject(payload) with a FHIR payload
BuildViewModelFromFhir ==
    /\ pc = "ready"
    /\ input.op = "viewFhir"
    /\ viewModel' = buildViewModelFromFhir(input.fhir, Now)
    /\ outcome' = [NoOutcome EXCEPT !.status = "returned"]
    /\ pc' = "done"
    /\ UNCHANGED <<input, legacyCode, paneVars, stageRows, callPc, schemaLoads,
                 fragmentText, rawBytes, candidates, rawInflateTried,
                   payloadTypePromise, legacyPayloadTypePromise, attempts, srcBundle,
                   codeRefPayload, outBundle>>

NextFhir == BundleToCodeRef \/ EncodeStart \/ EncodeFinish \/ BuildViewModelFromFhir

SpecFhir == InitFhir /\ [][NextFhir]_vars

MissingPatient == "No Patient resource found in FHIR Bundle"

\* the caller handed over a Bundle without a Patient resource, and the call is over
NoPatientDone ==
    /\ input.fhir.resourceType = "Bundle"
    /\ \A i \in 1..Len(input.fhir.entry) :
          ~Has(input.fhir.entry[i].resource)
          \/ Get(input.fhir.entry[i].resource).resourceType # "Patient"
    /\ pc # "ready"

StageRows(stage) ==
    createMISTChronologicalRows(normaliseCodeRefVitalsRaw(stage.vitals),
                                normaliseCodeRefConditionsRaw(stage.conditions),
                                normaliseCodeRefEventsRaw(stage.events))

StagePills(rows) ==
    [i \in 1..Len(rows) |->
        createStandardizedPill(rows[i].dataType, rows[i], rows[i].isFirstDisplayedInRow)]

\* stages whose items carry any timestamp of the model, or none, in any order
RowStages ==
    {[vitals |-> v, conditions |-> c, events |-> e] :
        v \in SeqsUpTo({VitalItem(HeartRate, t, 72) : t \in 0..MaxTime}, MaxItems),
        c \in SeqsUpTo({ConditionItem(Fracture, t) : t \in 0..MaxTime}, MaxItems - 1),
        e \in SeqsUpTo({EventItem(Morphine, t, NoDose) : t \in 0..MaxTime}, MaxItems - 1)}

RowInputs ==
    {Input("rows", NoText, [EmptyPayload EXCEPT !.stages["poi"] = s], EmptyBundle) :
        s \in RowStages}

InitRows ==
    /\ input \in RowInputs
    /\ Idle

BuildStageRows ==
    /\ pc = "ready"
    /\ input.op = "rows"
    /\ LET rows == StageRows(input.payload.stages["poi"])
       IN stageRows' = [built |-> TRUE, rows |-> rows, pills |-> StagePills(rows)]
    /\ pc' = "done"
    /\ UNCHANGED <<input, legacyCode, paneVars, callPc, schemaLoads, fragmentText, rawBytes, candidates,
                   rawInflateTried, payloadTypePromise, legacyPayloadTypePromise, attempts,
                   outcome, srcBundle, codeRefPayload, outBundle, viewModel>>

NextRows == BuildStageRows

SpecRows == InitRows /\ [][NextRows]_vars

Timestamped(item) == extractTimestamp(item) # 0

\* the position of the last timestamped row of the same data type before row i,
\* or 0 when there is none
PrevSameType(rows, i) ==
    LET before == {j \in 1..(i - 1) : Timestamped(rows[j])
                                      /\ rows[j].dataType = rows[i].dataType}
    IN IF before = {} THEN 0 ELSE SetMax(before)

RowDate(item) == formatDateForComparison(extractTimestamp(item))

\* C12: in the rows of a stage, a timestamped item is row-first exactly when no
\* timestamped item of its data type precedes it or the nearest such item has a
\* different calendar date.
RowFirstIffDateChanges ==
    stageRows.built =>
        \A i \in 1..Len(stageRows.rows) :
            Timestamped(stageRows.rows[i]) =>
                (stageRows.rows[i].isFirstDisplayedInRow
                 <=> \/ PrevSameType(stageRows.rows, i) = 0
                     \/ RowDate(stageRows.rows[PrevSameType(stageRows.rows, i)])
                        # RowDate(stageRows.rows[i]))

\* C12 witness: two vitals of one calendar date and different times of day were
\* grouped; the earlier is row-first and the later is not
SameDaySecondNotFirst ==
    /\ stageRows.built
    /\ \E i, j \in 1..Len(stageRows.rows) :
          /\ i < j
          /\ stageRows.rows[i].dataType = "vitals"
          /\ stageRows.rows[j].dataType = "vitals"
          /\ Timestamped(stageRows.rows[i])
          /\ extractTimestamp(stageRows.rows[i]) < extractTimestamp(stageRows.rows[j])
          /\ RowDate(stageRows.rows[i]) = RowDate(stageRows.rows[j])
          /\ stageRows.rows[i].isFirstDisplayedInRow
          /\ ~stageRows.rows[j].isFirstDisplayedInRow

DataTypes == {"vitals", "conditions", "events"}

\* the stage with the items of every data type but one removed
OnlyType(stage, dataType) ==
    [list \in DataTypes |-> IF list = dataType THEN stage[list] ELSE <<>>]

TimestampedOfType(rows, dataType) ==
    SelectSeq(rows, LAMBDA item : Timestamped(item) /\ item.dataType = dataType)

\* C13: the timestamped rows of one data type, row-first flags included, are the
\* same as when the stage holds the items of that data type alone, so no item of
\* another data type changes a row-first flag.
RowFirstIndependentOfOtherTypes ==
    stageRows.built =>
        \A dataType \in DataTypes :
            TimestampedOfType(stageRows.rows, dataType)
            = TimestampedOfType(StageRows(OnlyType(input.payload.stages["poi"], dataType)),
                                dataType)

\* C13 witness: a vital and a condition of one calendar date were grouped, the
\* vital before the condition, and both are row-first
VitalAndConditionBothFirst ==
    /\ stageRows.built
    /\ \E i, j \in 1..Len(stageRows.rows) :
          /\ i < j
          /\ stageRows.rows[i].dataType = "vitals"
          /\ stageRows.rows[j].dataType = "conditions"
          /\ Timestamped(stageRows.rows[i])
          /\ Timestamped(stageRows.rows[j])
          /\ RowDate(stageRows.rows[i]) = RowDate(stageRows.rows[j])
          /\ stageRows.rows[i].isFirstDisplayedInRow
          /\ stageRows.rows[j].isFirstDisplayedInRow

\* how many rows of a list have the data type and timestamp of the given item
CountLike(rows, item) ==
    Cardinality({i \in 1..Len(rows) : /\ rows[i].dataType = item.dataType
                                      /\ extractTimestamp(rows[i]) = extractTimestamp(item)})

\* the raw items of the stage handed to the grouping engine, in input order
RawInput ==
    LET stage == input.payload.stages["poi"]
    IN Tagged(normaliseCodeRefVitalsRaw(stage.vitals), "vitals")
       \o Tagged(normaliseCodeRefConditionsRaw(stage.conditions), "conditions")
       \o Tagged(normaliseCodeRefEventsRaw(stage.events), "events")

\* C14: the rows hold every input item once; the timestamped rows are in
\* non-decreasing timestamp order and no untimestamped row precedes a
\* timestamped one, whatever the order of the input.
RowsChronological ==
    stageRows.built =>
        /\ Len(stageRows.rows) = Len(RawInput)
        /\ \A i \in 1..Len(RawInput) :
              CountLike(stageRows.rows, RawInput[i]) = CountLike(RawInput, RawInput[i])
        /\ \A i, j \in 1..Len(stageRows.rows) :
              i < j =>
                 /\ (Timestamped(stageRows.rows[i]) /\ Timestamped(stageRows.rows[j])
                       => extractTimestamp(stageRows.rows[i])
                          <= extractTimestamp(stageRows.rows[j]))
                 /\ (~Timestamped(stageRows.rows[i]) => ~Timestamped(stageRows.rows[j]))

\* C14 witness: the input began with an untimestamped item and held two
\* timestamped items in descending order; the rows begin with a timestamped item
\* and end with an untimestamped one
ShuffledInputGrouped ==
    /\ stageRows.built
    /\ Len(RawInput) >= 3
    /\ ~Timestamped(RawInput[1])
    /\ \E i, j \in 1..Len(RawInput) :
          /\ i < j
          /\ Timestamped(RawInput[j])
          /\ extractTimestamp(RawInput[i]) > extractTimestamp(RawInput[j])
    /\ Timestamped(stageRows.rows[1])
    /\ ~Timestamped(stageRows.rows[Len(stageRows.rows)])

\* the positions of the untimestamped rows, in row order
UntimestampedRows == {i \in 1..Len(stageRows.rows) : ~Timestamped(stageRows.rows[i])}

DataTypesOf(rows) == [i \in 1..Len(rows) |-> rows[i].dataType]

\* C15: the untimestamped rows keep their input order; the first of them is
\* row-first and its pill shows 'No Date'; every later one is not row-first and its
\* pill shows no date at all.
OnlyFirstUntimestampedShowsNoDate ==
    stageRows.built =>
        /\ DataTypesOf(SelectSeq(stageRows.rows, LAMBDA item : ~Timestamped(item)))
           = DataTypesOf(SelectSeq(RawInput, LAMBDA item : ~Timestamped(item)))
        /\ \A i \in UntimestampedRows :
              IF i = SetMin(UntimestampedRows)
              THEN /\ stageRows.rows[i].isFirstDisplayedInRow
                   /\ stageRows.pills[i].dateDisplay = "No Date"
              ELSE /\ ~stageRows.rows[i].isFirstDisplayedInRow
                   /\ stageRows.pills[i].dateDisplay = ""

\* C15 witness: a stage with a timestamped item and at least two untimestamped
\* ones was grouped; one pill shows 'No Date' and a later one shows nothing
SecondUntimestampedBlank ==
    /\ stageRows.built
    /\ Cardinality(UntimestampedRows) >= 2
    /\ Timestamped(stageRows.rows[1])
    /\ \E i, j \in UntimestampedRows :
          /\ i < j
          /\ stageRows.pills[i].dateDisplay = "No Date"
          /\ stageRows.pills[j].dateDisplay = ""

\* C16: the pill of every timestamped row carries the timestamp the grouping
\* engine extracted for it and shows the full date and time when the row is
\* row-first and the time only otherwise; a pill shows no date only when its row is
\* untimestamped and not row-first.
PillDateFromRowTimestamp ==
    stageRows.built =>
        /\ Len(stageRows.pills) = Len(stageRows.rows)
        /\ \A i \in 1..Len(stageRows.rows) :
              /\ stageRows.pills[i].dataType = stageRows.rows[i].dataType
              /\ Timestamped(stageRows.rows[i]) =>
                    /\ stageRows.pills[i].dateTime = extractTimestamp(stageRows.rows[i])
                    /\ stageRows.pills[i].dateDisplay
                       = IF stageRows.rows[i].isFirstDisplayedInRow THEN "full"
                         ELSE "timeOnly"
              /\ stageRows.pills[i].dateDisplay = "" =>
                    /\ ~Timestamped(stageRows.rows[i])
                    /\ ~stageRows.rows[i].isFirstDisplayedInRow

\* C16 witness: a condition dated by its onset shows the full date, a vital that
\* is not row-first shows the time only, and an untimestamped item shows 'No Date'
PillsOfEveryDateKind ==
    /\ stageRows.built
    /\ \E i, j, k \in 1..Len(stageRows.rows) :
          /\ stageRows.rows[i].dataType = "conditions"
          /\ stageRows.rows[i].onset # 0
          /\ stageRows.pills[i].dateTime = stageRows.rows[i].onset
          /\ stageRows.pills[i].dateDisplay = "full"
          /\ stageRows.rows[j].dataType = "vitals"
          /\ stageRows.rows[j].time # 0
          /\ stageRows.pills[j].dateDisplay = "timeOnly"
          /\ ~Timestamped(stageRows.rows[k])
          /\ stageRows.pills[k].dateDisplay = "No Date"

(***************************************************************************)
(* The schema cache under concurrent codec calls.  Each call runs          *)
(* encodeToFragment or decodeFragment; the calls interleave at their       *)
(* awaits.  schemaLoads counts the fetches of each schema file and the     *)
(* fetches that failed.  What a decode attempt yields is left open here.   *)
(***************************************************************************)
MaxCalls == 3

Calls == 1..MaxCalls

Call(op, at) == [op |-> op, at |-> at]

\* a fetch is started and memoized
ensureTypeUncached(promise, fetched) == [promise |-> "pending", fetched |-> fetched + 1]

\* ensurePayloadType / ensureLegacyPayloadType: if (!promise) promise = fetch(...)
ensureType(promise, fetched) ==
    IF promise = "null" THEN [promise |-> "pending", fetched |-> fetched + 1]
    ELSE [promise |-> promise, fetched |-> fetched]

InitSchema ==
    /\ input = Input("schema", NoText, EmptyPayload, EmptyBundle)
    /\ callPc \in [Calls -> {Call(op, "ready") : op \in {"encode", "decode"}}]
    /\ pc = "ready"
    /\ fragmentText = NoText
    /\ rawBytes = NoBytes
    /\ candidates = <<>>
    /\ rawInflateTried = FALSE
    /\ payloadTypePromise = "null"
    /\ legacyPayloadTypePromise = "null"
    /\ attempts = <<>>
    /\ outcome = NoOutcome
    /\ stageRows = NoRows
    /\ schemaLoads = NoLoads
    /\ legacyCode = NoLegacyResult
    /\ formatState = InitialFormatState
    /\ leftInput = <<>>
    /\ lastFragment = <<>>
    /\ srcBundle = EmptyBundle
    /\ codeRefPayload = EmptyPayload
    /\ outBundle = NoBundle
    /\ viewModel = NoViewModel

SchemaUnchanged ==
    UNCHANGED <<pc, input, legacyCode, paneVars, fragmentText, rawBytes, candidates, rawInflateTried, attempts,
                outcome, srcBundle, codeRefPayload, outBundle, viewModel, stageRows>>

\* a call runs up to `await ensurePayloadType()`
CallEnsuresCurrent(c) ==
    /\ callPc[c].at = "ready"
    /\ LET ensured == ensureType(payloadTypePromise, schemaLoads.fetched.current)
       IN /\ payloadTypePromise' = ensured.promise
          /\ schemaLoads' = [schemaLoads EXCEPT !.fetched.current = ensured.fetched]
    /\ callPc' = [callPc EXCEPT ![c].at = "awaitCurrent"]
    /\ UNCHANGED legacyPayloadTypePromise
    /\ SchemaUnchanged

\* a fetch whose failure stays memoized: the rejected promise is kept
CurrentSettlesCached ==
    /\ payloadTypePromise = "pending"
    /\ \E loaded \in BOOLEAN :
          IF loaded
          THEN /\ payloadTypePromise' = "resolved"
               /\ UNCHANGED <<callPc, schemaLoads>>
          ELSE /\ payloadTypePromise' = "rejected"
               /\ schemaLoads' = [schemaLoads EXCEPT !.failed.current = @ + 1]
               /\ callPc' = [c \in Calls |->
                               IF callPc[c].at = "awaitCurrent"
                               THEN Call(callPc[c].op, "threw") ELSE callPc[c]]
    /\ UNCHANGED legacyPayloadTypePromise
    /\ SchemaUnchanged

\* the fetch of the current schema settles; on failure the .catch handler clears
\* the cache and every call awaiting the promise is rejected
CurrentSettles ==
    /\ payloadTypePromise = "pending"
    /\ \E loaded \in BOOLEAN :
          IF loaded
          THEN /\ payloadTypePromise' = "resolved"
               /\ UNCHANGED <<callPc, schemaLoads>>
          ELSE /\ payloadTypePromise' = "null"
               /\ schemaLoads' = [schemaLoads EXCEPT !.failed.current = @ + 1]
               /\ callPc' = [c \in Calls |->
                               IF callPc[c].at = "awaitCurrent"
                               THEN Call(callPc[c].op, "threw") ELSE callPc[c]]
    /\ UNCHANGED legacyPayloadTypePromise
    /\ SchemaUnchanged

\* a call resumes with the current schema: encodeToFragment returns or throws;
\* decodeFragment returns when tryDecode succeeds and otherwise runs up to
\* `await ensureLegacyPayloadType()`
CallResumesCurrent(c) ==
    /\ callPc[c].at = "awaitCurrent"
    /\ payloadTypePromise = "resolved"
    /\ \E done \in BOOLEAN :
          IF callPc[c].op = "encode"
          THEN /\ callPc' = [callPc EXCEPT ![c].at = IF done THEN "returned" ELSE "threw"]
               /\ UNCHANGED <<legacyPayloadTypePromise, schemaLoads>>
          ELSE IF done
          THEN /\ callPc' = [callPc EXCEPT ![c].at = "returned"]
               /\ UNCHANGED <<legacyPayloadTypePromise, schemaLoads>>
          ELSE LET ensured == ensureType(legacyPayloadTypePromise,
                                         schemaLoads.fetched.legacy)
               IN /\ legacyPayloadTypePromise' = ensured.promise
                  /\ schemaLoads' = [schemaLoads EXCEPT !.fetched.legacy = ensured.fetched]
                  /\ callPc' = [callPc EXCEPT ![c].at = "awaitLegacy"]
    /\ UNCHANGED payloadTypePromise
    /\ SchemaUnchanged

\* the fetch of the legacy schema settles
LegacySettles ==
    /\ legacyPayloadTypePromise = "pending"
    /\ \E loaded \in BOOLEAN :
          IF loaded
          THEN /\ legacyPayloadTypePromise' = "resolved"
               /\ UNCHANGED <<callPc, schemaLoads>>
          ELSE /\ legacyPayloadTypePromise' = "null"
               /\ schemaLoads' = [schemaLoads EXCEPT !.failed.legacy = @ + 1]
               /\ callPc' = [c \in Calls |->
                               IF callPc[c].at = "awaitLegacy"
                               THEN Call(callPc[c].op, "threw") ELSE callPc[c]]
    /\ UNCHANGED payloadTypePromise
    /\ SchemaUnchanged

\* decodeFragment resumes with the legacy schema and returns or throws
CallResumesLegacy(c) ==
    /\ callPc[c].at = "awaitLegacy"
    /\ legacyPayloadTypePromise = "resolved"
    /\ \E done \in BOOLEAN :
          callPc' = [callPc EXCEPT ![c].at = IF done THEN "returned" ELSE "threw"]
    /\ UNCHANGED <<payloadTypePromise, legacyPayloadTypePromise, schemaLoads>>
    /\ SchemaUnchanged

NextSchema ==
    \/ \E c \in Calls : CallEnsuresCurrent(c)
    \/ CurrentSettles
    \/ \E c \in Calls : CallResumesCurrent(c)
    \/ LegacySettles
    \/ \E c \in Calls : CallResumesLegacy(c)

SpecSchema == InitSchema /\ [][NextSchema]_vars

\* C17 as stated: each schema file is fetched at most once
SchemaFetchedAtMostOnce ==
    /\ schemaLoads.fetched.current <= 1
    /\ schemaLoads.fetched.legacy <= 1

\* the fetches a cache state accounts for: the failed ones, and one more while a
\* load is in flight or has succeeded
FetchesFor(promise, failed) == IF promise = "null" THEN failed ELSE failed + 1

\* C17 as the code has it: a schema is fetched once more than its fetch has
\* failed while its promise is cached, and exactly as often as it has failed when
\* the cache is clear; so concurrent calls share one fetch, a schema that loaded is
\* never fetched again, and only a failed fetch is followed by another.
SchemaFetchedOncePerFailure ==
    /\ schemaLoads.fetched.current
       = FetchesFor(payloadTypePromise, schemaLoads.failed.current)
    /\ schemaLoads.fetched.legacy
       = FetchesFor(legacyPayloadTypePromise, schemaLoads.failed.legacy)

\* C17 witness: two calls await the current schema at once while its one fetch
\* is in flight
ConcurrentCallsShareOneFetch ==
    /\ Cardinality({c \in Calls : callPc[c].at = "awaitCurrent"}) >= 2
    /\ payloadTypePromise = "pending"
    /\ schemaLoads.fetched.current = 1
    /\ schemaLoads.failed.current = 0

\* the gender of the Patient resource of the converted bundle
SourceGender == Get(Head(FindPatient(srcBundle.entry)).resource).gender

\* C18: a bundle whose patient gender is neither male nor female converts to a
\* payload whose patient gender is present and carries the original text.
OtherGenderPassesThrough ==
    (BundleConverted /\ SourceGender \notin {Absent, "male", "female"}) =>
        /\ Has(Get(codeRefPayload.patient).gender)
        /\ Get(Get(codeRefPayload.patient).gender).code = SourceGender

\* bundle metadata a payload can carry: as convertFhirBundleToCodeRef stores it, and
\* as it comes back from a fragment (the id without the entries), for a bundle
\* under its own id or under the id the converter gives a synthesized bundle
PreservedMetadata ==
    {BundleMetadataOf(b) : b \in Bundles}
    \cup {[id |-> i, entries_json |-> <<>>] : i \in {"bundle-1", "ips-example"}}

SynthesizedDone ==
    /\ input.op = "fromCodeRef"
    /\ pc = "done"
    /\ outBundle.ok
    /\ ~Has(codeRefPayload.bundleMetadata)

\* C19: the bundle synthesized from a payload without bundle metadata differs from
\* every bundle the converter returns for the same payload with preserved metadata,
\* so the output bundle alone tells the two provenance cases apart.
SynthesizedBundleTellsProvenance ==
    SynthesizedDone =>
        \A meta \in PreservedMetadata :
            convertCodeRefToFhirBundle([codeRefPayload EXCEPT !.bundleMetadata = <<meta>>], Now)
            # outBundle

\* the view model of a CodeRef payload has been built
SummaryBuilt == input.op = "view" /\ pc = "done" /\ viewModel.built

EncodedFragmentIsBase64Url ==
    pc = "encoded" =>
        /\ outcome.fragment.alphabet = "url"
        /\ ~outcome.fragment.padded

\* blood groups that are recorded without a code that resolves: an empty code, and
\* a code no terminology knows
UnresolvedBloodGroups == {CodeRefOf("sct", ""), CodeRefOf("sct", "000")}

NoBloodGroupBuilt ==
    /\ SummaryBuilt
    /\ Has(input.payload.patient)
    /\ ~Has(Get(input.payload.patient).blood_group)
    /\ ~Has(Get(input.payload.patient).bloodGroup)

MaxDict == 3

KeyRef(system, code) == [text |-> "system:code", system |-> system, code |-> code, number |-> 0]

CodeNumberRef(number) == [text |-> "Code #", system |-> "", code |-> "", number |-> number]

UnknownRef == [text |-> "Unknown", system |-> "", code |-> "", number |-> 0]

LegacyCode(index, system, code, ref) ==
    [index |-> index, system |-> system, code |-> code, ref |-> ref]

\* entries.map((entry, index) => ...)
buildLegacyCodebook(entries) ==
    [i \in 1..Len(entries) |->
        LegacyCode(<<i - 1>>, entries[i].sys, entries[i].code,
                   IF entries[i].sys # "" /\ entries[i].code # ""
                   THEN KeyRef(entries[i].sys, entries[i].code)
                   ELSE CodeNumberRef(i - 1))]

\* a resolver that answers 'Unknown' for every index without an entry
resolveLegacyCodeUnknown(codebook, index) ==
    IF Has(index) /\ Get(index) \in 0..(Len(codebook) - 1) THEN codebook[Get(index) + 1]
    ELSE LegacyCode(<<>>, "", "", UnknownRef)

\* index is <<>> for undefined or null
resolveLegacyCode(codebook, index) ==
    IF ~Has(index) THEN LegacyCode(<<>>, "", "", UnknownRef)
    ELSE IF Get(index) \in 0..(Len(codebook) - 1) THEN codebook[Get(index) + 1]
    ELSE LegacyCode(<<>>, "", "", CodeNumberRef(Get(index)))

\* the D array of a legacy payload: up to MaxDict entries, with or without a code
Dictionaries ==
    SeqsUpTo({CodeRefOf("sct", "125605004"), CodeRefOf("loinc", "8867-4"), CodeRefOf("", "")},
             MaxDict)

\* an index below, inside and beyond every dictionary, or none
Indices == {<<>>} \cup {<<i>> : i \in (0 - 1)..(MaxDict + 1)}

InitLegacy ==
    /\ input = Input("legacy", NoText, EmptyPayload, EmptyBundle)
    /\ Idle

\* buildFromLegacy builds the codebook from nfcPayload.D and resolves an index of
\* the payload against it
ResolveLegacyCode ==
    /\ pc = "ready"
    /\ \E entries \in Dictionaries, index \in Indices :
          LET codebook == buildLegacyCodebook(entries)
          IN legacyCode' = [resolved |-> TRUE, entries |-> entries, index |-> index,
                            codebook |-> codebook,
                            code |-> <<resolveLegacyCode(codebook, index)>>]
    /\ pc' = "done"
    /\ UNCHANGED <<input, paneVars, stageRows, callPc, schemaLoads, fragmentText, rawBytes,
                   candidates, rawInflateTried, payloadTypePromise, legacyPayloadTypePromise,
                   attempts, outcome, srcBundle, codeRefPayload, outBundle, viewModel>>

NextLegacy == ResolveLegacyCode

SpecLegacy == InitLegacy /\ [][NextLegacy]_vars

\* an index was given and the dictionary has no entry at it
OutOfBounds ==
    /\ legacyCode.resolved
    /\ Has(legacyCode.index)
    /\ ~(Get(legacyCode.index) \in 0..(Len(legacyCode.entries) - 1))

\* C23: an index outside the dictionary resolves to the placeholder 'Code #<index>'
\* with an empty system and code, whatever the index and the size of the dictionary.
OutOfBoundsIndexIsPlaceholder ==
    OutOfBounds =>
        /\ Has(legacyCode.code)
        /\ Get(legacyCode.code).ref = CodeNumberRef(Get(legacyCode.index))
        /\ Get(legacyCode.code).system = ""
        /\ Get(legacyCode.code).code = ""

\* C23 witness: the index just past the end of a full dictionary was resolved
IndexPastFullDictionary ==
    /\ OutOfBounds
    /\ Len(legacyCode.entries) = MaxDict
    /\ legacyCode.index = <<MaxDict>>
    /\ Get(legacyCode.code).ref.text = "Code #"

(***************************************************************************)
(* CodeRef -> Bundle -> CodeRef: the bundle convertCodeRefToFhirBundle     *)
(* returns is handed back to convertFhirToCodeRef.                         *)
(***************************************************************************)
\* stages of coded items only
CodedStages ==
    {[vitals |-> v, conditions |-> c, events |-> e] :
        v \in SeqsUpTo({VitalItem(HeartRate, 1, 72), VitalItem(HeartRate, MaxTime, 80)},
                       MaxItems),
        c \in SeqsUpTo({ConditionItem(Fracture, 2)}, MaxItems - 1),
        e \in SeqsUpTo({EventItem(Morphine, MaxTime, NumDose(5)),
                        EventItem(Morphine, 1, NumDose(0)),
                        EventItem(Tourniquet, 2, NoDose)}, MaxItems - 1)}

\* payloads without bundle metadata, with items in any one of the nine stages
ReturnInputs ==
    {Input("fromCodeRef", NoText,
           Payload(p, <<>>, <<>>, [EmptyStages EXCEPT ![k] = s], <<>>), EmptyBundle) :
        p \in {<<>>, <<PatientData("Tom", Male, <<>>, <<>>, <<>>)>>},
        k \in StageKeySet, s \in CodedStages}

InitReturn ==
    /\ input \in ReturnInputs
    /\ Idle

\* convertFhirToCodeRef on the bundle that convertCodeRefToFhirBundle returned
BundleBackToCodeRef ==
    /\ pc = "done"
    /\ input.op = "fromCodeRef"
    /\ outBundle.ok
    /\ LET bundle == Bundle(outBundle.id, outBundle.entry)
           converted == convertFhirToCodeRef(bundle, Now)
       IN /\ srcBundle' = bundle
          /\ IF converted.ok
             THEN /\ codeRefPayload' = converted.payload
                  /\ UNCHANGED outcome
             ELSE /\ outcome' = Threw(converted.error)
                  /\ UNCHANGED codeRefPayload
    /\ pc' = "returned"
    /\ UNCHANGED <<input, legacyCode, paneVars, stageRows, callPc, schemaLoads, fragmentText,
                   rawBytes, candidates, rawInflateTried, payloadTypePromise,
                   legacyPayloadTypePromise, attempts, outBundle, viewModel>>

NextReturn == CodeRefToBundle \/ BundleBackToCodeRef

SpecReturn == InitReturn /\ [][NextReturn]_vars

\* the payload had a patient and came back from the bundle made of it
CameBack ==
    /\ pc = "returned"
    /\ Has(input.payload.patient)
    /\ outcome.status # "threw"

CodesOf(items) == [i \in 1..Len(items) |-> items[i].code]

\* C24: every re-emitted vital, condition and event carries its stage, and after
\* CodeRef -> Bundle -> CodeRef each list of each of the nine stages holds the items
\* it held before, in the same order.
StageAndListSurviveReturn ==
    CameBack =>
        /\ \A i \in 1..Len(outBundle.entry) :
              Get(outBundle.entry[i].resource).resourceType
                 \in {"Observation", "Condition", "MedicationAdministration", "Procedure"}
              => Get(outBundle.entry[i].resource).careStage \in StageKeySet
        /\ \A k \in StageKeySet :
              \A list \in {"vitals", "conditions", "events"} :
                 CodesOf(codeRefPayload.stages[k][list])
                 = CodesOf(input.payload.stages[k][list])

\* C24 witness: a payload with a vital, a condition and an event in the forward
\* tactical evacuation stage came back with all three in that stage
ForwardStageCameBack ==
    /\ CameBack
    /\ Len(input.payload.stages["fwdTacevac"].vitals) > 0
    /\ Len(codeRefPayload.stages["fwdTacevac"].vitals) > 0
    /\ Len(codeRefPayload.stages["fwdTacevac"].conditions) > 0
    /\ Len(codeRefPayload.stages["fwdTacevac"].events) > 0

\* a view model was built from a bundle whose converted payload has no r2 timestamp
BundleSummaryFromT ==
    /\ input.op = "viewFhir"
    /\ pc = "done"
    /\ Has(viewModel.summary)
    /\ R2Times(convertFhirToCodeRef(input.fhir, Now).payload) = {}

\* C25: the summary timestamp of a view model built from a bundle without r2
\* timestamps is the instant of the conversion (Now, in minutes since the epoch).
ConvertedTimestampIsConversionInstant ==
    BundleSummaryFromT => Get(viewModel.summary).timestamp = <<Now>>

\* the calls suspended at an await of a schema promise
AwaitingCalls(at) == {c \in Calls : callPc[c].at = at}

\* C26: a failed schema load is not cached.  A call is suspended on a schema
\* promise only while that load is in flight or has succeeded: when a load fails
\* every call waiting on it has received the error and the cache is clear, so a
\* later call never waits on the failed load but starts a fresh one.
FailedLoadNotCached ==
    /\ AwaitingCalls("awaitCurrent") # {} =>
          payloadTypePromise \in {"pending", "resolved"}
    /\ AwaitingCalls("awaitLegacy") # {} =>
          legacyPayloadTypePromise \in {"pending", "resolved"}

\* C26 witness: the first load of the current schema failed and a call waiting on
\* it threw; a later call loaded the schema afresh and returned
LaterCallLoadsAfresh ==
    /\ schemaLoads.failed.current = 1
    /\ schemaLoads.fetched.current = 2
    /\ payloadTypePromise = "resolved"
    /\ \E c, d \in Calls :
          /\ callPc[c].at = "threw"
          /\ callPc[d].at = "returned"

\* the three lists handed to the grouping engine for the stage
EngineInput ==
    LET stage == input.payload.stages["poi"]
    IN [vitals |-> normaliseCodeRefVitalsRaw(stage.vitals),
        conditions |-> normaliseCodeRefConditionsRaw(stage.conditions),
        events |-> normaliseCodeRefEventsRaw(stage.events)]

\* an item without what the grouping engine adds to it
Unmarked(item) ==
    [item EXCEPT !.dataType = "", !.isFirstDisplayedInRow = FALSE, !.noTimestamp = FALSE]

\* how often a list holds an item
Occurrences(items, item) == Cardinality({i \in 1..Len(items) : items[i] = item})

\* the rows of one data type, in row order, without the engine's additions
RowsOfType(dataType) ==
    LET ofType == SelectSeq(stageRows.rows, LAMBDA row : row.dataType = dataType)
    IN [i \in 1..Len(ofType) |-> Unmarked(ofType[i])]

\* C27: the rows hold each input item exactly once.  There are as many rows as
\* vitals, conditions and events passed in, every row carries one of the three
\* data types, and the rows of a data type are the items of that input list, each
\* as often as the list holds it.
EachInputItemOnce ==
    stageRows.built =>
        /\ Len(stageRows.rows) = Len(EngineInput.vitals) + Len(EngineInput.conditions)
                                 + Len(EngineInput.events)
        /\ \A i \in 1..Len(stageRows.rows) :
              stageRows.rows[i].dataType \in DOMAIN EngineInput
        /\ \A dataType \in DOMAIN EngineInput :
              /\ Len(RowsOfType(dataType)) = Len(EngineInput[dataType])
              /\ \A i \in 1..Len(EngineInput[dataType]) :
                    Occurrences(RowsOfType(dataType), EngineInput[dataType][i])
                    = Occurrences(EngineInput[dataType], EngineInput[dataType][i])

\* C27 witness: two equal vitals, an untimestamped condition and a timestamped
\* event went in, and four rows came out
EqualItemsAndAllTypesGrouped ==
    /\ stageRows.built
    /\ Len(EngineInput.vitals) = 2
    /\ EngineInput.vitals[1] = EngineInput.vitals[2]
    /\ Len(EngineInput.conditions) = 1
    /\ ~Timestamped(EngineInput.conditions[1])
    /\ Len(EngineInput.events) = 1
    /\ Timestamped(EngineInput.events[1])
    /\ Len(stageRows.rows) = 4

\* the resource kinds of the events a bundle holds for a stage, in entry order
SourceEventKinds(entries, stageKey) ==
    LET events == SelectSeq(entries, LAMBDA e :
                      /\ Has(e.resource)
                      /\ Get(e.resource).resourceType \in {"MedicationAdministration", "Procedure"}
                      /\ getCareStageFromExtension(Get(e.resource)) = stageKey)
    IN [i \in 1..Len(events) |-> Get(events[i].resource).resourceType]

\* the resource kinds of the entries a bundle emits for the events of a stage
EmittedEventKinds(entries, stageKey) ==
    LET events == SelectSeq(entries, LAMBDA e :
                      e.fullUrl.stage = stageKey /\ e.fullUrl.kind = "event")
    IN [i \in 1..Len(events) |-> Get(events[i].resource).resourceType]

\* C28: Bundle -> CodeRef -> Bundle keeps the resource kind of every event: the
\* entries emitted for the events of a stage are MedicationAdministration and
\* Procedure resources in the order and of the kinds of the bundle's events of
\* that stage, whatever their dose.
EventKindSurvivesRoundTrip ==
    (FromBundle /\ pc = "done" /\ outBundle.ok) =>
        \A stageKey \in StageKeySet :
            EmittedEventKinds(outBundle.entry, stageKey)
            = SourceEventKinds(srcBundle.entry, stageKey)

\* C29: building a view model from a CodeRef payload leaves the caller's payload
\* as it was handed in: no field is added, removed or rewritten.
PayloadUnchangedByBuild ==
    (input.op = "view" /\ pc = "done") => codeRefPayload = input.payload

(***************************************************************************)
(* The two-pane converter.  The left pane holds a text: a fragment or the  *)
(* FHIR JSON of one of MaxDocs documents, or a text that is neither.  The  *)
(* codec is reduced to the document a text stands for.  lastFragment       *)
(* records the fragment of the most recent Decode that decoded its         *)
(* fragment or encoding that produced one.                                 *)
(***************************************************************************)
MaxDocs == 2

PaneFragment(doc) == [kind |-> "fragment", doc |-> doc]

PaneJson(doc) == [kind |-> "json", doc |-> doc]

PaneOther == [kind |-> "other", doc |-> 0]

PaneTexts ==
    {PaneFragment(d) : d \in 1..MaxDocs} \cup {PaneJson(d) : d \in 1..MaxDocs}
    \cup {PaneOther}

\* what the user enters into the left pane in a mode: a text of the kind the
\* pane asks for, or a text that is neither a fragment nor JSON
TextsFor(leftMode) ==
    {text \in PaneTexts :
        text.kind \in {IF leftMode = "fragment" THEN "fragment" ELSE "json", "other"}}

looksLikeJson(text) == text.kind = "json"

\* updateLeftPaneMode(newMode) on the pane state and the pane's text; converts
\* tells whether the conversion of the text, when one is tried, succeeds (its
\* failure is caught and logged)
updateLeftPaneMode(state, content, newMode, converts) ==
    LET switched == [state EXCEPT !.leftMode = newMode]
    IN IF newMode = "fragment"
       THEN IF Has(state.originalFragment)
            THEN [state |-> switched, content |-> state.originalFragment]
            ELSE IF Has(content) /\ looksLikeJson(Get(content)) /\ converts
            THEN [state |-> switched, content |-> <<PaneFragment(Get(content).doc)>>]
            ELSE [state |-> switched, content |-> content]
       ELSE IF Has(state.originalFhir)
            THEN [state |-> switched, content |-> state.originalFhir]
            ELSE IF Has(content) /\ Get(content).kind = "fragment" /\ converts
            THEN [state |-> switched, content |-> <<PaneJson(Get(content).doc)>>]
            ELSE [state |-> switched, content |-> content]

PaneUnchanged ==
    UNCHANGED <<input, legacyCode, stageRows, callPc, schemaLoads, fragmentText, rawBytes,
                candidates, rawInflateTried, payloadTypePromise, legacyPayloadTypePromise,
                attempts, outcome, srcBundle, codeRefPayload, outBundle, viewModel>>

InitPanes ==
    /\ input = Input("panes", NoText, EmptyPayload, EmptyBundle)
    /\ Idle

\* the end of the initialisation: with a fragment in the URL the pane state stays
\* as created; without one the first preset, when there is one, becomes the
\* original FHIR and the left pane is put into FHIR mode
LoadDefaultContent ==
    /\ pc = "ready"
    /\ input.op = "panes"
    /\ \E hash \in BOOLEAN, payload1 \in {<<>>, <<PaneJson(1)>>} :
          IF hash THEN UNCHANGED paneVars
          ELSE LET state == [formatState EXCEPT !.originalFhir = payload1,
                                                !.originalFragment = <<>>]
                   shown == updateLeftPaneMode(state, leftInput, "fhir", TRUE)
               IN /\ formatState' = shown.state
                  /\ leftInput' = shown.content
                  /\ UNCHANGED lastFragment
    /\ pc' = "loaded"
    /\ PaneUnchanged

\* a click on the left pane title; the fragment the switch encodes from the
\* pane's JSON counts as encoded
ToggleLeftPaneMode ==
    /\ pc = "loaded"
    /\ \E converts \in BOOLEAN :
          LET newMode == IF formatState.leftMode = "fragment" THEN "fhir" ELSE "fragment"
              shown == updateLeftPaneMode(formatState, leftInput, newMode, converts)
          IN /\ formatState' = shown.state
             /\ leftInput' = shown.content
             /\ lastFragment' = IF /\ newMode = "fragment"
                                   /\ ~Has(formatState.originalFragment)
                                   /\ shown.content # leftInput
                                THEN shown.content ELSE lastFragment
    /\ UNCHANGED pc
    /\ PaneUnchanged

\* a click on the action button (Decode in fragment mode, Encode in FHIR mode),
\* after the user has left the pane's text as it is or replaced it.  result tells
\* how far the conversion gets: "rejected" when the text cannot be parsed or
\* decoded, "failed" when a later step throws (for Decode the conversion of the
\* decoded payload, for Encode the encoding), "ok" when it runs to its end.
performConversion ==
    /\ pc = "loaded"
    /\ \E typed \in {<<>>} \cup {<<text>> : text \in TextsFor(formatState.leftMode)},
          result \in {"rejected", "failed", "ok"} :
          LET inputContent == IF Has(typed) THEN typed ELSE leftInput
          IN IF ~Has(inputContent) THEN UNCHANGED paneVars
             ELSE IF formatState.leftMode = "fragment"
             THEN /\ leftInput' = inputContent
                  /\ IF result = "rejected" \/ Get(inputContent).kind = "other"
                     THEN UNCHANGED <<formatState, lastFragment>>
                     ELSE /\ formatState' =
                               [formatState EXCEPT !.originalFragment = inputContent]
                          /\ lastFragment' =
                               IF Get(inputContent).kind = "fragment"
                               THEN inputContent ELSE lastFragment
             ELSE IF result = "rejected" \/ ~looksLikeJson(Get(inputContent))
             THEN /\ leftInput' = inputContent
                  /\ UNCHANGED <<formatState, lastFragment>>
             ELSE IF result = "failed"
             THEN /\ leftInput' = inputContent
                  /\ formatState' = [formatState EXCEPT !.originalFhir = inputContent]
                  /\ UNCHANGED lastFragment
             ELSE LET state == [formatState EXCEPT !.originalFhir = inputContent]
                      fragment == <<PaneFragment(Get(inputContent).doc)>>
                      shown == updateLeftPaneMode(state, inputContent, "fragment", TRUE)
                  IN /\ formatState' = shown.state
                     /\ leftInput' = fragment
                     /\ lastFragment' = fragment
    /\ UNCHANGED pc
    /\ PaneUnchanged

NextPanes == LoadDefaultContent \/ ToggleLeftPaneMode \/ performConversion

SpecPanes == InitPanes /\ [][NextPanes]_vars

\* C30: whenever the left pane is switched to fragment mode and shows the
\* fragment kept from a Decode, that fragment is the one of the most recent
\* successful Encode or Decode: after a later Encode, toggling to FHIR mode and
\* back does not display the fragment of the earlier Decode.
SwitchShowsLatestFragment ==
    [][(/\ formatState.leftMode = "fhir"
        /\ formatState'.leftMode = "fragment"
        /\ Has(lastFragment')
        /\ Has(formatState.originalFragment)
        /\ Get(leftInput').kind = "fragment")
       => leftInput' = lastFragment']_vars

====
